---------------------------- MODULE Spec2Model ----------------------------
(***************************************************************************)
(* Model of the streaming decoders of the Subconscious Node SDK.           *)
(*                                                                         *)
(*   rich  protocol: parseSSEStream (internal/sse.ts) driven by the rich   *)
(*                   createStream (stream.ts, second version)              *)
(*   delta protocol: the OpenAI-compatible createStream (stream.ts, first  *)
(*                   version)                                              *)
(*                                                                         *)
(* Text is a sequence of atoms.  An atom stands for one character (":",    *)
(* " ", LF, CR) or for a run of characters that holds none of those        *)
(* ("data", "[DONE]", the opening part of a JSON object, ...).  The wire   *)
(* is a sequence of byte atoms; the two bytes of a two-byte UTF-8          *)
(* character are the atoms M1 and M2.  The network cuts the wire into      *)
(* chunks between any two atoms.                                           *)
(***************************************************************************)
EXTENDS Naturals, Sequences, FiniteSets, TLC

VARIABLES
    proto,          \* "rich" | "delta": which createStream is running
    wire,           \* the bytes the server sends on the response body
    hdr,            \* value of the x-run-id response header ("" if absent)
    response,       \* the Response fetch resolves with: status, body
    peer,           \* the locals of a second createStream running concurrently
    pos,            \* number of bytes of wire already returned by reader.read()
    readerDone,     \* reader.read() has resolved with done: true
    readError,      \* what reader.read() has rejected with, NULLV if it has not
    pc,             \* where the generator is suspended
    decoder,        \* TextDecoder: the bytes of an incomplete character it keeps
    buffer,         \* `buffer`: text after the last LF seen
    lines,          \* rest of `lines` in the running `for (const line of lines)`
    currentMessage, \* parseSSEStream's accumulator (rich)
    isError,        \* delta createStream's `isError`
    runId,          \* delta createStream's `runId`
    finalRun,       \* rich createStream's `finalRun`
    events,         \* the events the consumer has received, in order
    outcome,        \* how the generator ended: return value, error or closed
    acquired,       \* number of body.getReader() calls that returned a reader
    released,       \* number of reader.releaseLock() calls
    seen,           \* the lines the decoder has processed so far, in order
    http,           \* one call of request() or requestStream() on its own
    poll,           \* one call of pollUntilComplete() and its abort signal
    zod             \* one call of zodToJsonSchema()

\* what the server and the caller give: they never change
env == <<proto, wire, hdr, response, peer, http, poll, zod>>

\* the first stream: its inputs and the locals of its generator
own == <<proto, wire, hdr, response, pos, readerDone, readError, pc, decoder,
         buffer, lines, currentMessage, isError, runId, finalRun, events,
         outcome, acquired, released, seen>>

vars == <<own, peer, http, poll, zod>>

-----------------------------------------------------------------------------
(* Bounds of the model *)

\* most LF-terminated lines on the wire
MaxLines == 3

-----------------------------------------------------------------------------
(* Atoms *)

LF == "LF"
CR == "CR"
COLON == ":"
SP == " "
\* first and second byte of a two-byte UTF-8 character
M1 == "M1"
M2 == "M2"
\* the character M1 M2 encodes, and U+FFFD
EACUTE == "e'"
REPLACEMENT == "U+FFFD"
\* closing part of a JSON object whose last member is a string: "}
CLOSE == "}"

\* JavaScript values that are not strings
UNDEF == "<undefined>"
NULLV == "<null>"
ZERO == "<0>"
SEVEN == "<7>"

Truthy(v) == v \notin {UNDEF, NULLV, ZERO, ""}
IsString(v) == v \notin {UNDEF, NULLV, ZERO, SEVEN}

-----------------------------------------------------------------------------
(* String operations of JavaScript on atom sequences *)

Last(s) == s[Len(s)]
Front(s) == SubSeq(s, 1, Len(s) - 1)

RECURSIVE IndexOf(_, _)
\* String.prototype.indexOf, 1-based; 0 when absent
IndexOf(s, a) ==
    IF s = <<>> THEN 0
    ELSE IF Head(s) = a THEN 1
    ELSE LET r == IndexOf(Tail(s), a) IN IF r = 0 THEN 0 ELSE r + 1

\* String.prototype.startsWith
StartsWith(s, p) == Len(s) >= Len(p) /\ SubSeq(s, 1, Len(p)) = p

\* String.prototype.slice(n) with n characters dropped
Slice(s, n) == SubSeq(s, n + 1, Len(s))

WhiteSpace == {SP, CR, LF}

RECURSIVE TrimStart(_)
TrimStart(s) ==
    IF s # <<>> /\ Head(s) \in WhiteSpace THEN TrimStart(Tail(s)) ELSE s

RECURSIVE TrimEnd(_)
TrimEnd(s) ==
    IF s # <<>> /\ Last(s) \in WhiteSpace THEN TrimEnd(Front(s)) ELSE s

\* String.prototype.trim
Trim(s) == TrimEnd(TrimStart(s))

RECURSIVE SplitAll(_)
SplitAll(s) ==
    LET i == IndexOf(s, LF) IN
    IF i = 0 THEN <<s>>
    ELSE <<SubSeq(s, 1, i - 1)>> \o SplitAll(Slice(s, i))

\* a split that also gives the text after the last LF as a whole line
SplitEager(s) == IF s = <<>> THEN <<s>> ELSE SplitAll(s) \o <<<<>>>>

\* a split that drops the text after the last LF
SplitLosesCarry(s) == Front(SplitAll(s)) \o <<<<>>>>

RECURSIVE Split(_)
\* String.prototype.split('\n'): n LFs give n + 1 segments
Split(s) ==
    LET i == IndexOf(s, LF) IN
    IF i = 0 THEN <<s>>
    ELSE <<SubSeq(s, 1, i - 1)>> \o Split(Slice(s, i))


-----------------------------------------------------------------------------
(* TextDecoder *)

RECURSIVE DecodeBytes(_, _)
\* UTF-8 decoding of `bytes` after the kept bytes `kept` of an incomplete
\* character: the text, and the bytes kept at the end of the input
DecodeBytes(kept, bytes) ==
    IF bytes = <<>> THEN [text |-> <<>>, kept |-> kept]
    ELSE LET b == Head(bytes)
             Emit(c, r) == [text |-> <<c>> \o r.text, kept |-> r.kept]
         IN IF kept = <<M1>>
            THEN IF b = M2
                 THEN Emit(EACUTE, DecodeBytes(<<>>, Tail(bytes)))
                 ELSE Emit(REPLACEMENT, DecodeBytes(<<>>, bytes))
            ELSE IF b = M1 THEN DecodeBytes(<<M1>>, Tail(bytes))
            ELSE IF b = M2
                 THEN Emit(REPLACEMENT, DecodeBytes(<<>>, Tail(bytes)))
                 ELSE Emit(b, DecodeBytes(<<>>, Tail(bytes)))

\* decoder.decode(value) without {stream: true}: an incomplete character at
\* the end of the chunk is replaced at once and nothing is kept
DecodeNoStream(kept, bytes) ==
    LET r == DecodeBytes(<<>>, bytes) IN
    [text |-> IF r.kept = <<>> THEN r.text ELSE r.text \o <<REPLACEMENT>>,
     kept |-> <<>>]

\* decoder.decode(value, {stream: true})
Decode(kept, bytes) == DecodeBytes(kept, bytes)

-----------------------------------------------------------------------------
(* JSON.parse *)

\* The opening atoms of JSON objects: the text of an object up to the inside
\* of its last member, a string.  `fields` are the members, `open` the member
\* the characters before CLOSE are added to.  choices[0].delta.content is
\* the field "content".
Objects ==
    [x \in {"{completed", "{failed", "{started", "{content", "{error+content",
            "{run_id+error+content", "{null_error+content",
            "{empty_run_id+content", "{no_content", "{empty_content",
            "{number_content", "{details+error+code", "{empty_details+code"} |->
       CASE x = "{completed" ->
              [fields |-> [type |-> "run.completed", runId |-> "r1",
                           usage |-> "U", result |-> "R"],
               open |-> "result"]
         [] x = "{failed" ->
              [fields |-> [type |-> "run.failed", runId |-> "r2", error |-> "E"],
               open |-> "error"]
         [] x = "{started" ->
              [fields |-> [type |-> "run.started", runId |-> "r"],
               open |-> "runId"]
         [] x = "{content" ->
              [fields |-> [content |-> "hi"], open |-> "content"]
         [] x = "{error+content" ->
              [fields |-> [error |-> "boom", content |-> "hi"],
               open |-> "content"]
         [] x = "{run_id+error+content" ->
              [fields |-> [run_id |-> "r2", error |-> "boom", content |-> "hi"],
               open |-> "content"]
         [] x = "{null_error+content" ->
              [fields |-> [error |-> NULLV, content |-> "hi"],
               open |-> "content"]
         [] x = "{empty_run_id+content" ->
              [fields |-> [run_id |-> "", content |-> "hi"],
               open |-> "content"]
         [] x = "{no_content" ->
              [fields |-> [id |-> "c1"], open |-> "id"]
         [] x = "{empty_content" ->
              [fields |-> [content |-> "", id |-> "c1"], open |-> "id"]
         [] x = "{number_content" ->
              [fields |-> [content |-> SEVEN, id |-> "c1"], open |-> "id"]
         [] x = "{details+error+code" ->
              [fields |-> [details |-> "why", error |-> "boom", code |-> "E42"],
               open |-> "code"]
         [] x = "{empty_details+code" ->
              [fields |-> [details |-> "", code |-> "E42"], open |-> "code"]]

OpenAtoms == DOMAIN Objects

JNull == [kind |-> "null"]
JNumber == [kind |-> "number"]
JObject(f) == [kind |-> "object", fields |-> f]

RECURSIVE Join(_)
\* the characters of an atom sequence as one string
Join(s) == IF s = <<>> THEN "" ELSE Head(s) \o Join(Tail(s))

\* characters that may stand inside a JSON string as they are
InString(a) == a \notin (OpenAtoms \cup {CLOSE, LF, CR})

\* JSON.parse(text): [ok |-> FALSE] when it throws SyntaxError
JSONParse(text) ==
    LET s == Trim(text) IN
    IF s = <<"null">> THEN [ok |-> TRUE, value |-> JNull]
    ELSE IF s = <<"7">> THEN [ok |-> TRUE, value |-> JNumber]
    ELSE IF /\ Len(s) >= 2
            /\ Head(s) \in OpenAtoms
            /\ Last(s) = CLOSE
            /\ \A i \in 2..(Len(s) - 1) : InString(s[i])
         THEN LET o == Objects[Head(s)]
                  more == Join(SubSeq(s, 2, Len(s) - 1))
              IN [ok |-> TRUE,
                  value |-> JObject([o.fields EXCEPT ![o.open] = @ \o more])]
         ELSE [ok |-> FALSE]

\* v.k for a value JSON.parse returned; reading a property of null throws
Prop(v, k) ==
    IF v.kind = "object" /\ k \in DOMAIN v.fields THEN v.fields[k] ELSE UNDEF

-----------------------------------------------------------------------------
(* internal/sse.ts *)

Digits == {"0", "3", "7"}

\* parseInt(value, 10)
ParseInt(value) ==
    LET v == TrimStart(value) IN
    IF v # <<>> /\ Head(v) \in Digits THEN <<Head(v)>> ELSE <<"NaN">>

NoFields == [isNull |-> TRUE]
OneField(k, v) == [isNull |-> FALSE, key |-> k, value |-> v]

parseSSELine(line) ==
    IF line = <<>> \/ Head(line) = COLON THEN NoFields
    ELSE LET colonIndex == IndexOf(line, COLON) IN
         IF colonIndex = 0 THEN OneField(line, <<>>)
         ELSE LET field == SubSeq(line, 1, colonIndex - 1)
                  raw == Slice(line, colonIndex)
                  value == IF StartsWith(raw, <<SP>>) THEN Slice(raw, 1) ELSE raw
              IN CASE field = <<"event">> -> OneField(field, value)
                   [] field = <<"data">> -> OneField(field, value)
                   [] field = <<"id">> -> OneField(field, value)
                   [] field = <<"retry">> -> OneField(field, ParseInt(value))
                   [] OTHER -> NoFields

\* currentMessage = {}
EmptyMessage == [k \in {} |-> <<>>]

\* the accumulator kept across a record boundary
ResetKeeps(message) == message

\* `currentMessage = {}` at a record boundary
Reset(message) == EmptyMessage

\* an assignment that keeps the value a field already has
AssignFirstWins(message, parsed) ==
    IF parsed.isNull THEN message
    ELSE [k \in DOMAIN message \cup {parsed.key} |->
            IF k \in DOMAIN message THEN message[k] ELSE parsed.value]

\* Object.assign(message, parsed), after `if (parsed)`
Assign(message, parsed) ==
    IF parsed.isNull THEN message
    ELSE [k \in DOMAIN message \cup {parsed.key} |->
            IF k = parsed.key THEN parsed.value ELSE message[k]]

DATA == <<"data">>

\* currentMessage.data !== undefined
HasData(message) == DATA \in DOMAIN message

\* a catch block that lets the error through
CatchRethrows(e) == e

\* `catch { // Skip malformed JSON }`: the error that leaves the try
\* statement, NULLV for none
Catch(e) == NULLV

\* the try statement at a record boundary: the error that leaves it
RecordRaise(message) ==
    IF HasData(message) /\ ~JSONParse(message[DATA]).ok
    THEN Catch("SyntaxError")
    ELSE NULLV

\* the try block at a record boundary: the event to yield, if any
RecordEvent(message) ==
    IF HasData(message) /\ JSONParse(message[DATA]).ok
    THEN <<JSONParse(message[DATA]).value>>
    ELSE <<>>

-----------------------------------------------------------------------------
(* stream.ts, delta protocol: one iteration of `for (const line of lines)` *)

\* a || b
Or(a, b) == IF Truthy(a) THEN a ELSE b

DONE == <<"[DONE]">>

\* dataContent compared and parsed as sliced, without trim()
DataContentUntrimmed(trimmed) == Slice(trimmed, 2)

\* `trimmed.slice(5).trim()`: what follows "data:"
DataContent(trimmed) == Trim(Slice(trimmed, 2))

\* the error test without `payload.error`
ErrorMarkedByFlagOnly(isErr, payload) == isErr

\* `isError || payload.error`
ErrorMarked(isErr, payload) == isErr \/ Truthy(Prop(payload, "error"))

\* the content test without the test of its type
ContentDefined(content) == content # UNDEF

\* `typeof content === 'string' && content.length > 0`
ContentYielded(content) == IsString(content) /\ content # ""

\* the message taken from `payload.error` alone
ErrorMessageNoDetails(payload) == Or(Prop(payload, "error"), "Unknown error")

\* `payload.details || payload.error || 'Unknown error'`
ErrorMessage(payload) ==
    Or(Prop(payload, "details"), Or(Prop(payload, "error"), "Unknown error"))

\* What one line does to isError and runId, the event it yields (`emit`, at
\* most one) and whether `isError = false` follows the yield (`clear`).
DeltaLine(line, isErr, rid) ==
    LET trimmed == Trim(line)
        same == [isError |-> isErr, runId |-> rid, emit |-> <<>>, clear |-> FALSE,
                 raise |-> NULLV]
    IN
    IF trimmed = <<>> \/ Head(trimmed) = COLON THEN same
    ELSE IF StartsWith(trimmed, <<"event", COLON>>)
    THEN [same EXCEPT !.isError = (Trim(Slice(trimmed, 2)) = <<"error">>)]
    ELSE IF StartsWith(trimmed, <<"data", COLON>>)
    THEN LET dataContent == DataContent(trimmed) IN
         IF dataContent = DONE
         THEN [same EXCEPT !.emit = <<[type |-> "done", runId |-> rid]>>]
         ELSE LET parsed == JSONParse(dataContent) IN
              IF ~parsed.ok THEN [same EXCEPT !.raise = Catch("SyntaxError")]
              ELSE LET payload == parsed.value IN
              IF payload.kind = "null"
              THEN [same EXCEPT !.raise = Catch("TypeError")]
              ELSE IF Truthy(Prop(payload, "run_id"))
              THEN [same EXCEPT !.runId = Prop(payload, "run_id")]
              ELSE IF ErrorMarked(isErr, payload)
              THEN [same EXCEPT
                      !.emit = <<[type |-> "error",
                                  runId |-> rid,
                                  message |-> ErrorMessage(payload),
                                  code |-> Prop(payload, "code")]>>,
                      !.clear = TRUE]
              ELSE LET content == Prop(payload, "content") IN
                   IF ContentYielded(content)
                   THEN [same EXCEPT
                           !.emit = <<[type |-> "delta", runId |-> rid,
                                       content |-> content]>>]
                   ELSE same
    ELSE same

-----------------------------------------------------------------------------
(* stream.ts, rich protocol *)

\* `let finalRun: Run | undefined`
NoRun == [undefined |-> TRUE]

\* the body of `for await (const event of parseSSEStream(reader))` after the
\* yield: the new finalRun
TrackRun(event, run) ==
    IF Prop(event, "type") = "run.completed"
    THEN [runId |-> Prop(event, "runId"), status |-> "succeeded",
          result |-> Prop(event, "result"), usage |-> Prop(event, "usage")]
    ELSE IF Prop(event, "type") = "run.failed"
    THEN [runId |-> Prop(event, "runId"), status |-> "failed"]
    ELSE run

\* reading event.type throws TypeError
TypeThrows(event) == event.kind = "null"

\* how the generators end; an error is written as the name of its class
\* (SubconsciousError and its subclasses, TypeError) or, for a plain
\* Error, as its message
Running == [kind |-> "none"]
Returned(v) == [kind |-> "return", value |-> v]
Threw(e) == [kind |-> "throw", error |-> e]
Closed == [kind |-> "closed"]

\* a rejection of reader.read() caught like a malformed record: the
\* generator ends as if the stream had ended
RejectedSwallowed(e) == Returned(NoRun)

\* `await reader.read()` rejects with e inside try/finally, outside any
\* catch: the generator throws e
Rejected(e) == Threw(e)

\* after the loop of the rich createStream
RichEnd(run) ==
    IF run = NoRun THEN Threw("Stream ended without completion event")
    ELSE Returned(run)

\* the x-run-id header ignored
HeaderRunIdIgnored(header) == ""

\* `response.headers.get('x-run-id') || ''`
HeaderRunId(header) == Or(header, "")

\* the return without the test of runId
DeltaEndUntested(rid) == Returned([runId |-> rid, status |-> "succeeded"])

\* `return runId ? { runId, status: 'succeeded' } : undefined`
DeltaEnd(rid) ==
    IF Truthy(rid) THEN Returned([runId |-> rid, status |-> "succeeded"])
    ELSE Returned(NoRun)

-----------------------------------------------------------------------------
(* internal/http.ts *)

\* mapStatusToCode
mapStatusToCode(status) ==
    CASE status = 400 -> "invalid_request"
      [] status = 401 -> "authentication_failed"
      [] status = 403 -> "permission_denied"
      [] status = 404 -> "not_found"
      [] status = 429 -> "rate_limited"
      [] status = 503 -> "service_unavailable"
      [] status = 504 -> "timeout"
      [] OTHER -> "internal_error"

\* the error classes; all extend SubconsciousError
ErrorClasses == {"SubconsciousError", "AuthenticationError", "RateLimitError",
                 "NotFoundError", "ValidationError"}

\* new SubconsciousError(code, message, status, details)
SubconsciousError(code, status, details) ==
    [name |-> "SubconsciousError", code |-> code, status |-> status,
     details |-> details]

\* new AuthenticationError(message)
AuthenticationError ==
    [name |-> "AuthenticationError", code |-> "authentication_failed",
     status |-> 401, details |-> UNDEF]

\* new RateLimitError(message)
RateLimitError ==
    [name |-> "RateLimitError", code |-> "rate_limited", status |-> 429,
     details |-> UNDEF]

\* new NotFoundError(message)
NotFoundError ==
    [name |-> "NotFoundError", code |-> "not_found", status |-> 404,
     details |-> UNDEF]

\* new ValidationError(message, details)
ValidationError(details) ==
    [name |-> "ValidationError", code |-> "invalid_request", status |-> 400,
     details |-> details]

\* The body of a response as res.json() sees it: text that is no JSON,
\* the JSON null, or a JSON object; and the `error` member of the object:
\* absent, null, a string, or an object with a code and details (each
\* UNDEF when absent).
NoMember == [kind |-> "undefined", code |-> UNDEF, details |-> UNDEF]
NullMember == [kind |-> "null", code |-> UNDEF, details |-> UNDEF]
StringMember == [kind |-> "string", code |-> UNDEF, details |-> UNDEF]
ObjectMember(code, details) ==
    [kind |-> "object", code |-> code, details |-> details]
NotJSON == [kind |-> "unparsable", error |-> NoMember]
NullBody == [kind |-> "null", error |-> NoMember]
ObjectBody(e) == [kind |-> "object", error |-> e]

\* `await res.json()` rejects (SyntaxError), or `body.error` or the
\* destructuring of an undefined or null `body.error` throws (TypeError)
BodyThrows(json) ==
    \/ json.kind # "object"
    \/ json.error.kind \in {"undefined", "null"}

\* parseErrorResponse(res): the members `code` and `details` of a string
\* are undefined
parseErrorResponse(res) ==
    IF BodyThrows(res.json)
    THEN SubconsciousError(mapStatusToCode(res.status), res.status, UNDEF)
    ELSE LET code == res.json.error.code
             details == res.json.error.details
         IN CASE code = "authentication_failed" -> AuthenticationError
              [] code = "rate_limited" -> RateLimitError
              [] code = "not_found" -> NotFoundError
              [] code = "invalid_request" -> ValidationError(details)
              [] OTHER -> SubconsciousError(code, res.status, details)

\* every response taken as a success
OkAlways(res) == TRUE

\* res.ok: the status is in the range 200-299
Ok(res) == res.status \in 200..299

\* requestStream resolves and `response.body?.getReader()` gives a reader
Startable(res) == Ok(res) /\ res.body

-----------------------------------------------------------------------------
(* The inputs: what the server sends *)

\* The lines of the streams, as bytes
Blank == <<>>
RichCompleted == <<"data", COLON, SP, "{completed", CLOSE>>
RichFailed == <<"data", COLON, "{failed", CLOSE>>
RichStarted == <<"data", COLON, "{started", M1, M2, CLOSE>>
RichTruncated == <<"data", COLON, "{started">>
RichNull == <<"data", COLON, "null">>
EventOther == <<"event", COLON, "meta">>
EventError == <<"event", COLON, SP, "error">>
DataDone == <<"data", COLON, SP, "[DONE]">>
DeltaContent == <<"data", COLON, "{content", M1, M2, CLOSE>>
DeltaError == <<"data", COLON, "{error+content", CLOSE>>
DeltaRunId == <<"data", COLON, "{run_id+error+content", CLOSE>>
DeltaNullError == <<"data", COLON, "{null_error+content", CLOSE>>
DeltaEmptyRunId == <<"data", COLON, "{empty_run_id+content", CLOSE>>
DeltaTruncated == <<"data", COLON, "{content">>
DeltaNoContent == <<"data", COLON, "{no_content", CLOSE>>
DeltaEmptyContent == <<"data", COLON, "{empty_content", CLOSE>>
DeltaNumberContent == <<"data", COLON, "{number_content", CLOSE>>
DeltaDetails == <<"data", COLON, "{details+error+code", CLOSE>>
DeltaEmptyDetails == <<"data", COLON, "{empty_details+code", CLOSE>>
\* a comment, a field with an unknown name, a line without a colon
Comment == <<COLON, "c">>
Unknown == <<"foo", COLON, "bar">>
NoColon == <<"foo">>
\* a line whose field name is " data"
SpaceDataDone == <<SP, "data", COLON, SP, "[DONE]">>
RichNumber == <<"data", COLON, "7">>
RetryLine == <<"retry", COLON, SP, "7">>

\* Families of rich streams: the lines a stream is made of, what may
\* follow its last LF, and the values of the x-run-id header
RichFamilies ==
    { [lines |-> {Blank, RichCompleted, RichFailed, RichStarted},
       tails |-> {<<>>}, headers |-> {NULLV}],
      [lines |-> {Blank, RichCompleted, RichTruncated, RichNull},
       tails |-> {<<>>, RichNull}, headers |-> {NULLV}],
      [lines |-> {Blank, RichCompleted, Comment, NoColon},
       tails |-> {<<>>}, headers |-> {NULLV}],
      [lines |-> {Blank, RichNumber, RetryLine, Unknown},
       tails |-> {<<>>}, headers |-> {NULLV}] }

\* Families of delta streams
DeltaFamilies ==
    { [lines |-> {Blank, EventError, DataDone, DeltaContent},
       tails |-> {<<>>, DataDone}, headers |-> {"h1"}],
      [lines |-> {EventError, EventOther, DeltaTruncated, DeltaContent},
       tails |-> {<<>>}, headers |-> {NULLV}],
      [lines |-> {DeltaRunId, DeltaError, DeltaEmptyRunId, DataDone},
       tails |-> {<<>>}, headers |-> {NULLV, "h1"}],
      [lines |-> {DeltaContent, Comment, Unknown, SpaceDataDone},
       tails |-> {<<>>}, headers |-> {NULLV}],
      [lines |-> {DeltaNoContent, DeltaEmptyContent, DeltaNumberContent, DeltaContent},
       tails |-> {<<>>}, headers |-> {"h1"}],
      [lines |-> {EventError, DeltaDetails, DeltaEmptyDetails, DeltaNullError},
       tails |-> {<<>>}, headers |-> {"h1"}] }

RECURSIVE Serialize(_)
\* the bytes of a sequence of lines, each ended by LF
Serialize(ls) ==
    IF ls = <<>> THEN <<>> ELSE Head(ls) \o <<LF>> \o Serialize(Tail(ls))

\* the byte streams of at most MaxLines lines and a tail of a family
WiresOf(f) ==
    { Serialize(ls) \o t :
        ls \in UNION { [1..n -> f.lines] : n \in 0..MaxLines }, t \in f.tails }

\* the responses: a stream, a success without a body, and failures with a
\* known error code, an unknown one and a body that is no JSON
Responses ==
    { [status |-> 200, body |-> TRUE, json |-> NotJSON],
      [status |-> 200, body |-> FALSE, json |-> NotJSON],
      [status |-> 404, body |-> TRUE,
       json |-> ObjectBody(ObjectMember("not_found", UNDEF))],
      [status |-> 401, body |-> TRUE,
       json |-> ObjectBody(ObjectMember("quota_exceeded", UNDEF))],
      [status |-> 503, body |-> TRUE, json |-> NotJSON] }

-----------------------------------------------------------------------------
(* The state machine *)

\* no second stream
NoPeer == [pc |-> "none"]

\* no call of request() on its own
NoHttp == [pc |-> "none"]

\* no call of pollUntilComplete()
NoPoll == [pc |-> "none"]

\* no call of zodToJsonSchema()
NoZod == [pc |-> "none"]

\* the locals of a generator before its first next()
InitLocals ==
    /\ pos = 0
    /\ readerDone = FALSE
    /\ readError = NULLV
    /\ pc = "start"
    /\ decoder = <<>>
    /\ buffer = <<>>
    /\ lines = <<>>
    /\ currentMessage = EmptyMessage
    /\ isError = FALSE
    /\ runId = ""
    /\ finalRun = NoRun
    /\ events = <<>>
    /\ outcome = Running
    /\ acquired = 0
    /\ released = 0
    /\ seen = <<>>

Init ==
    /\ proto \in {"rich", "delta"}
    /\ response \in Responses
    /\ \E f \in IF proto = "rich" THEN RichFamilies ELSE DeltaFamilies :
         /\ wire \in IF Startable(response) THEN WiresOf(f) ELSE {<<>>}
         /\ hdr \in IF Ok(response) THEN f.headers ELSE {NULLV}
    /\ peer = NoPeer
    /\ http = NoHttp
    /\ poll = NoPoll
    /\ zod = NoZod
    /\ InitLocals

\* back to the head of the for loop, or to `await reader.read()` after it
Continue(ls) == IF ls = <<>> THEN "read" ELSE "loop"

\* End with the finally block skipped when the consumer calls return()
EndLeaksOnReturn(o, release) ==
    /\ pc' = "done"
    /\ outcome' = o
    /\ released' = IF release /\ o # Closed THEN released + 1 ELSE released

\* the generator has ended: with the reader released or, before it had one, not
End(o, release) ==
    /\ pc' = "done"
    /\ outcome' = o
    /\ released' = IF release THEN released + 1 ELSE released

\* the first next(): requestStream answers 2xx with a readable body, and
\* the generator runs up to its first `await reader.read()`
Start ==
    /\ pc = "start"
    /\ Startable(response)
    /\ pc' = "read"
    /\ acquired' = acquired + 1
    /\ runId' = IF proto = "delta" THEN HeaderRunId(hdr) ELSE runId
    /\ UNCHANGED <<env, pos, readerDone, readError, decoder, buffer, lines,
                   currentMessage, isError, finalRun, events, outcome, released, seen>>

\* the first next(): requestStream throws on a non-2xx response, or the
\* response has no body
StartFails ==
    /\ pc = "start"
    /\ ~Startable(response)
    /\ End(Threw(IF ~Ok(response) THEN parseErrorResponse(response).name
                 ELSE "Response body is not readable"), FALSE)
    /\ runId' = IF proto = "delta" /\ Ok(response) THEN HeaderRunId(hdr)
                ELSE runId
    /\ UNCHANGED <<env, pos, readerDone, readError, decoder, buffer, lines,
                   currentMessage, isError, finalRun, events, acquired, seen>>

\* reader.read() resolves with the next n bytes
Read ==
    /\ pc = "read"
    /\ \E n \in 1..(Len(wire) - pos) :
         LET d == Decode(decoder, SubSeq(wire, pos + 1, pos + n))
             split == Split(buffer \o d.text)
         IN /\ pos' = pos + n
            /\ decoder' = d.kept
            /\ lines' = Front(split)
            /\ buffer' = Last(split)
            /\ pc' = Continue(Front(split))
    /\ UNCHANGED <<env, readerDone, readError, currentMessage, isError, runId,
                   finalRun, events, outcome, acquired, released, seen>>

\* one iteration of the delta for loop, up to its yield if it has one
DeltaProcessLine ==
    /\ pc = "loop" /\ proto = "delta"
    /\ LET r == DeltaLine(Head(lines), isError, runId) IN
         /\ isError' = r.isError
         /\ runId' = r.runId
         /\ events' = events \o r.emit
         /\ IF r.raise # NULLV
            THEN End(Threw(r.raise), TRUE)
            ELSE /\ pc' = IF r.emit = <<>> THEN Continue(Tail(lines))
                          ELSE IF r.clear THEN "yieldError" ELSE "yield"
                 /\ UNCHANGED <<outcome, released>>
    /\ lines' = Tail(lines)
    /\ seen' = Append(seen, Head(lines))
    /\ UNCHANGED <<env, pos, readerDone, readError, decoder, buffer, currentMessage,
                   finalRun, acquired>>

\* one iteration of parseSSEStream's for loop, up to its yield if it has
\* one; createStream passes the event on to its consumer at once
RichProcessLine ==
    /\ pc = "loop" /\ proto = "rich"
    /\ LET line == Head(lines) IN
         IF line = <<>>
         THEN /\ events' = events \o RecordEvent(currentMessage)
              /\ IF RecordRaise(currentMessage) # NULLV
                 THEN /\ currentMessage' = currentMessage
                      /\ End(Threw(RecordRaise(currentMessage)), TRUE)
                 ELSE IF RecordEvent(currentMessage) = <<>>
                 THEN /\ currentMessage' = Reset(currentMessage)
                      /\ pc' = Continue(Tail(lines))
                      /\ UNCHANGED <<outcome, released>>
                 ELSE /\ currentMessage' = currentMessage /\ pc' = "yield"
                      /\ UNCHANGED <<outcome, released>>
         ELSE /\ currentMessage' = Assign(currentMessage, parseSSELine(line))
              /\ events' = events
              /\ pc' = Continue(Tail(lines))
              /\ UNCHANGED <<outcome, released>>
    /\ lines' = Tail(lines)
    /\ seen' = Append(seen, Head(lines))
    /\ UNCHANGED <<env, pos, readerDone, readError, decoder, buffer, isError, runId,
                   finalRun, acquired>>

\* reader.read() resolves with done: the delta generator releases the
\* reader and returns
DeltaReadDone ==
    /\ pc = "read" /\ proto = "delta" /\ pos = Len(wire)
    /\ readerDone' = TRUE
    /\ End(DeltaEnd(runId), TRUE)
    /\ UNCHANGED <<env, readError, pos, decoder, buffer, lines, currentMessage,
                   isError, runId, finalRun, events, acquired, seen>>

\* reader.read() resolves with done: parseSSEStream handles what is left in
\* buffer and ends, and createStream ends after it
RichReadDone ==
    /\ pc = "read" /\ proto = "rich" /\ pos = Len(wire)
    /\ readerDone' = TRUE
    /\ LET message == IF buffer # <<>>
                      THEN Assign(currentMessage, parseSSELine(buffer))
                      ELSE currentMessage
           flush == IF buffer # <<>> THEN RecordEvent(message) ELSE <<>>
           raise == IF buffer # <<>> THEN RecordRaise(message) ELSE NULLV
       IN /\ currentMessage' = message
          /\ events' = events \o flush
          /\ IF raise # NULLV
             THEN End(Threw(raise), TRUE)
             ELSE IF flush # <<>>
             THEN pc' = "yieldFlush" /\ UNCHANGED <<outcome, released>>
             ELSE End(RichEnd(finalRun), TRUE)
    /\ UNCHANGED <<env, readError, pos, decoder, buffer, lines, isError, runId,
                   finalRun, acquired, seen>>

\* reader.read() rejects (the request was aborted, the connection broke):
\* the finally block runs and the rejection leaves the generator
ReadRejects ==
    /\ pc = "read"
    /\ readError' = "read rejected"
    /\ End(Rejected("read rejected"), TRUE)
    /\ UNCHANGED <<env, pos, readerDone, decoder, buffer, lines,
                   currentMessage, isError, runId, finalRun, events, acquired, seen>>

\* the consumer calls next() on the delta generator suspended at a yield
DeltaNext ==
    /\ pc \in {"yield", "yieldError"} /\ proto = "delta"
    /\ isError' = IF pc = "yieldError" THEN FALSE ELSE isError
    /\ pc' = Continue(lines)
    /\ UNCHANGED <<env, pos, readerDone, readError, decoder, buffer, lines,
                   currentMessage, runId, finalRun, events, outcome, acquired,
                   released, seen>>

\* the consumer calls next() on the rich generator suspended at its yield:
\* createStream inspects the event and asks parseSSEStream for the next one
RichNext ==
    /\ pc \in {"yield", "yieldFlush"} /\ proto = "rich"
    /\ LET event == Last(events) IN
         IF TypeThrows(event)
         THEN /\ End(Threw("TypeError"), TRUE)
              /\ UNCHANGED <<finalRun, currentMessage>>
         ELSE /\ finalRun' = TrackRun(event, finalRun)
              /\ IF pc = "yield"
                 THEN /\ currentMessage' = Reset(currentMessage)
                      /\ pc' = Continue(lines)
                      /\ UNCHANGED <<outcome, released>>
                 ELSE /\ currentMessage' = currentMessage
                      /\ End(RichEnd(TrackRun(event, finalRun)), TRUE)
    /\ UNCHANGED <<env, pos, readerDone, readError, decoder, buffer, lines,
                   isError, runId, events, acquired, seen>>

\* return() that releases the reader and lets the loop go on
ReturnIgnored ==
    /\ pc \in {"yield", "yieldError", "yieldFlush"}
    /\ pc' = Continue(lines)
    /\ outcome' = Closed
    /\ released' = released + 1
    /\ UNCHANGED <<env, pos, readerDone, readError, decoder, buffer, lines,
                   currentMessage, isError, runId, finalRun, events, acquired, seen>>

\* the consumer calls return() on the generator suspended at a yield (it
\* breaks out of its for await loop): the finally block runs
Return ==
    /\ pc \in {"yield", "yieldError", "yieldFlush"}
    /\ End(Closed, TRUE)
    /\ UNCHANGED <<env, pos, readerDone, readError, decoder, buffer, lines,
                   currentMessage, isError, runId, finalRun, events, acquired, seen>>

Next ==
    \/ Start
    \/ StartFails
    \/ Read
    \/ DeltaProcessLine
    \/ RichProcessLine
    \/ DeltaReadDone
    \/ RichReadDone
    \/ ReadRejects
    \/ DeltaNext
    \/ RichNext
    \/ Return

Spec == Init /\ [][Next]_vars

-----------------------------------------------------------------------------
(* The decoders as functions of the whole stream: what a consumer that      *)
(* calls next() until the generator ends receives when reader.read()        *)
(* returns all the bytes in one chunk.                                      *)

RECURSIVE DeltaFold(_, _, _, _)
\* the delta for loop over `ls`
DeltaFold(ls, isErr, rid, evs) ==
    IF ls = <<>> THEN [events |-> evs, isError |-> isErr, runId |-> rid]
    ELSE LET r == DeltaLine(Head(ls), isErr, rid) IN
         DeltaFold(Tail(ls), IF r.clear THEN FALSE ELSE r.isError, r.runId,
                   evs \o r.emit)

DeltaWhole(bytes, header) ==
    LET split == Split(Decode(<<>>, bytes).text)
        r == DeltaFold(Front(split), FALSE, HeaderRunId(header), <<>>)
    IN [events |-> r.events, outcome |-> DeltaEnd(r.runId)]

RECURSIVE RichFold(_, _, _, _)
\* parseSSEStream's for loop over `ls`, with createStream consuming its events
RichFold(ls, message, run, evs) ==
    IF ls = <<>>
    THEN [events |-> evs, message |-> message, run |-> run, threw |-> FALSE]
    ELSE IF Head(ls) # <<>>
    THEN RichFold(Tail(ls), Assign(message, parseSSELine(Head(ls))), run, evs)
    ELSE LET ev == RecordEvent(message) IN
         IF ev = <<>> THEN RichFold(Tail(ls), EmptyMessage, run, evs)
         ELSE IF TypeThrows(ev[1])
         THEN [events |-> evs \o ev, message |-> message, run |-> run,
               threw |-> TRUE]
         ELSE RichFold(Tail(ls), EmptyMessage, TrackRun(ev[1], run), evs \o ev)

RichWhole(bytes) ==
    LET split == Split(Decode(<<>>, bytes).text)
        r == RichFold(Front(split), EmptyMessage, NoRun, <<>>)
        rest == Last(split)
        flush == IF rest = <<>> THEN <<>>
                 ELSE RecordEvent(Assign(r.message, parseSSELine(rest)))
    IN IF r.threw THEN [events |-> r.events, outcome |-> Threw("TypeError")]
       ELSE IF flush = <<>>
       THEN [events |-> r.events, outcome |-> RichEnd(r.run)]
       ELSE IF TypeThrows(flush[1])
       THEN [events |-> r.events \o flush, outcome |-> Threw("TypeError")]
       ELSE [events |-> r.events \o flush,
             outcome |-> RichEnd(TrackRun(flush[1], r.run))]

Whole(protocol, bytes, header) ==
    IF protocol = "rich" THEN RichWhole(bytes) ELSE DeltaWhole(bytes, header)

\* the generator ran to its own end: it returned, or it threw something
\* other than the rejection of reader.read()
Drained ==
    /\ pc = "done"
    /\ acquired = 1
    /\ outcome # Closed
    /\ outcome # Threw("read rejected")

IsPrefix(s, t) == Len(s) <= Len(t) /\ SubSeq(t, 1, Len(s)) = s

-----------------------------------------------------------------------------
(* C1 *)

\* C1: chunk-boundary invariance.  However the bytes of the stream are cut
\* into chunks, the consumer receives the events the one-chunk delivery
\* gives, in that order, and the generator ends the way it ends there.
C1_ChunkInvariance ==
    LET whole == Whole(proto, wire, hdr) IN
    /\ IsPrefix(events, whole.events)
    /\ Drained => events = whole.events /\ outcome = whole.outcome

\* a chunk has ended inside a line and inside a two-byte character, after
\* an event of an earlier chunk
C1_Witness ==
    /\ pc = "read"
    /\ decoder = <<M1>>
    /\ buffer # <<>>
    /\ events # <<>>

-----------------------------------------------------------------------------
(* C2 .. C5 *)

\* C2: end-of-stream flush of the rich decoder.  At the step where the
\* reader signals done, if the record in progress (the unterminated last
\* line included) has a data field that is valid JSON, parseSSEStream
\* emits its event.
C2_FlushAtEnd ==
    [][(/\ proto = "rich"
        /\ ~readerDone /\ readerDone'
        /\ RecordEvent(currentMessage') # <<>>)
       => events' = events \o RecordEvent(currentMessage')]_vars

IsCompletion(event) == Prop(event, "type") \in {"run.completed", "run.failed"}

NoCompletion(evs) == \A i \in 1..Len(evs) : ~IsCompletion(evs[i])

\* the rich generator has seen the end of the stream and has ended with the
\* consumer still listening
RichStreamEnded ==
    /\ proto = "rich"
    /\ readerDone
    /\ pc = "done"
    /\ outcome # Closed

\* C3: rich protocol completeness.  When the rich stream has ended and no
\* run.completed or run.failed event was emitted, createStream has thrown
\* 'Stream ended without completion event'.
C3_ProtocolViolation ==
    (RichStreamEnded /\ NoCompletion(events))
        => outcome = Threw("Stream ended without completion event")

RECURSIVE LastCompletion(_)
LastCompletion(evs) ==
    IF IsCompletion(Last(evs)) THEN Last(evs) ELSE LastCompletion(Front(evs))

\* the Run the claim derives from a completion event
RunOf(event) ==
    IF Prop(event, "type") = "run.completed"
    THEN [runId |-> Prop(event, "runId"), status |-> "succeeded",
          result |-> Prop(event, "result"), usage |-> Prop(event, "usage")]
    ELSE [runId |-> Prop(event, "runId"), status |-> "failed"]

\* C4: rich run synthesis.  When the rich stream has been drained to its
\* end and a run.completed or run.failed event was emitted, createStream
\* has returned the Run of the most recent such event.
C4_RunSynthesis ==
    (RichStreamEnded /\ ~NoCompletion(events))
        => outcome = Returned(RunOf(LastCompletion(events)))

\* C5: the reader is released exactly once.  A generator that has ended
\* after it acquired the reader has called releaseLock() once; one that
\* has not ended, or never acquired the reader, has not called it.
C5_ReleaseOnce ==
    /\ acquired \in {0, 1}
    /\ (pc = "done" /\ acquired = 1) => released = 1
    /\ (pc # "done" \/ acquired = 0) => released = 0

\* the consumer has abandoned the stream after its first event, with lines
\* of the chunk left unprocessed
C5_Witness ==
    /\ outcome = Closed
    /\ Len(events) = 1
    /\ lines # <<>>
    /\ released = 1

-----------------------------------------------------------------------------
(* C6 *)

\* a `data:` line and what follows its colon
IsDataLine(line) == StartsWith(Trim(line), <<"data", COLON>>)
DataOf(line) == Trim(Slice(Trim(line), 2))

\* the payload of a data line is not valid JSON (and is not the sentinel)
MalformedData(line) ==
    IsDataLine(line) /\ DataOf(line) # DONE /\ ~JSONParse(DataOf(line)).ok

RECURSIVE FoldMessage(_, _)
\* the record a run of lines accumulates to
FoldMessage(ls, message) ==
    IF ls = <<>> THEN message
    ELSE FoldMessage(Tail(ls), Assign(message, parseSSELine(Head(ls))))

\* a rich record (its lines, without the blank line) whose data is not
\* valid JSON
RichMalformed(rec) ==
    LET message == FoldMessage(rec, EmptyMessage) IN
    HasData(message) /\ ~JSONParse(message[DATA]).ok

RECURSIVE RichStrip(_, _, _, _)
\* the lines `ls` and the tail `rest` of a rich stream without the records
\* whose data is not valid JSON; `rec` is the record in progress
RichStrip(ls, rest, rec, out) ==
    IF ls = <<>>
    THEN IF RichMalformed(IF rest = <<>> THEN rec ELSE Append(rec, rest))
         THEN Serialize(out)
         ELSE Serialize(out \o rec) \o rest
    ELSE IF Head(ls) # <<>>
    THEN RichStrip(Tail(ls), rest, Append(rec, Head(ls)), out)
    ELSE RichStrip(Tail(ls), rest, <<>>,
                   IF RichMalformed(rec) THEN out ELSE out \o rec \o <<Blank>>)

RECURSIVE DeltaStrip(_, _, _, _)
\* the same for a delta stream, where a record ends at its data line or at
\* a blank line
DeltaStrip(ls, rest, rec, out) ==
    IF ls = <<>> THEN Serialize(out \o rec) \o rest
    ELSE IF MalformedData(Head(ls)) THEN DeltaStrip(Tail(ls), rest, <<>>, out)
    ELSE IF Head(ls) = <<>> \/ IsDataLine(Head(ls))
    THEN DeltaStrip(Tail(ls), rest, <<>>, out \o rec \o <<Head(ls)>>)
    ELSE DeltaStrip(Tail(ls), rest, Append(rec, Head(ls)), out)

\* the stream without its malformed records
StripMalformed(protocol, bytes) ==
    LET split == Split(bytes) IN
    IF protocol = "rich"
    THEN RichStrip(Front(split), Last(split), <<>>, <<>>)
    ELSE DeltaStrip(Front(split), Last(split), <<>>, <<>>)

\* C6: malformed JSON tolerance.  A drained stream gives the events and
\* the outcome of the same stream with every record whose data is not
\* valid JSON taken out: such a record yields nothing, raises nothing and
\* changes no later record's event.
C6_MalformedTolerance ==
    Drained =>
        LET without == Whole(proto, StripMalformed(proto, wire), hdr) IN
        events = without.events /\ outcome = without.outcome

-----------------------------------------------------------------------------
(* C7 .. C10: the step of the delta decoder on one line *)

\* the delta decoder is about to process a line, and the line
DeltaAtLine == pc = "loop" /\ proto = "delta"
Line == IF lines = <<>> THEN <<>> ELSE Head(lines)

\* the parsed payload of a data line, when it is a JSON object
HasPayload(line) ==
    /\ IsDataLine(line)
    /\ DataOf(line) # DONE
    /\ JSONParse(DataOf(line)).ok
    /\ JSONParse(DataOf(line)).value.kind = "object"
PayloadOf(line) == JSONParse(DataOf(line)).value
HasField(payload, k) == k \in DOMAIN payload.fields

NonEmptyString(v) == IsString(v) /\ v # ""

\* the decoder yields exactly one event at this step, of type t
YieldsOne(t) == Len(events') = Len(events) + 1 /\ Last(events').type = t

DoneEvents(evs) == {i \in 1..Len(evs) : evs[i].type = "done"}
\* the data lines whose content is [DONE] once the line is trimmed
DoneLines(ls) ==
    {i \in 1..Len(ls) : IsDataLine(ls[i]) /\ DataOf(ls[i]) = DONE}

\* C8: the [DONE] sentinel.  Whatever came before it, the step on a line
\* `data: [DONE]` yields one `done` event that carries the current
\* correlation id, and a drained stream has yielded one `done` event for
\* each of its complete lines that are `data: [DONE]` once trimmed, and
\* no other.
C8_DoneSentinel ==
    /\ [][(DeltaAtLine /\ Line = DataDone)
          => events' = Append(events, [type |-> "done", runId |-> runId])]_vars
    /\ []((Drained /\ proto = "delta")
          => Cardinality(DoneEvents(events))
               = Cardinality(DoneLines(Front(Split(wire)))))

\* a `done` event has been yielded for a `data: [DONE]` line that follows
\* an `event: error` line
C8_Witness ==
    /\ proto = "delta"
    /\ pc = "yield"
    /\ isError
    /\ Last(seen) = DataDone
    /\ Last(events) = [type |-> "done", runId |-> runId]

RECURSIVE CorrelationId(_, _)
\* the correlation id after the lines `ls`: the truthy run_id of the last
\* payload that has one, else the header's value, else ''
CorrelationId(ls, header) ==
    IF ls = <<>> THEN IF Truthy(header) THEN header ELSE ""
    ELSE IF HasPayload(Last(ls)) /\ Truthy(Prop(PayloadOf(Last(ls)), "run_id"))
    THEN Prop(PayloadOf(Last(ls)), "run_id")
    ELSE CorrelationId(Front(ls), header)

\* C9 as claimed: a payload that has a `run_id` field yields no event and
\* its run_id becomes the correlation id.
C9_CorrelationId_AsClaimed ==
    [][(DeltaAtLine /\ HasPayload(Line) /\ HasField(PayloadOf(Line), "run_id"))
       => (events' = events /\ runId' = Prop(PayloadOf(Line), "run_id"))]_vars

\* C9, amended: a payload whose `run_id` is truthy yields no event (also
\* when it has `error` and content) and its run_id becomes the correlation
\* id; every event carries the last truthy run_id of the lines before its
\* own, or else the x-run-id header's value, or '' without one.
C9_CorrelationId ==
    [][/\ (DeltaAtLine /\ HasPayload(Line)
            /\ Truthy(Prop(PayloadOf(Line), "run_id")))
          => (events' = events /\ runId' = Prop(PayloadOf(Line), "run_id"))
       /\ (proto = "delta" /\ events' # events)
          => Last(events').runId = CorrelationId(seen, hdr)]_vars

\* an event with the header's id, then a run_id record, then an event with
\* the record's id
C9_Witness ==
    /\ proto = "delta"
    /\ hdr = "h1"
    /\ Len(events) = 2
    /\ events[1].runId = "h1"
    /\ events[2].runId = "r2"

RECURSIVE CurrentRecord(_)
\* the lines of the record in progress after the lines `ls`: those after
\* the last blank line or data line
CurrentRecord(ls) ==
    IF ls = <<>> \/ Last(ls) = <<>> \/ IsDataLine(Last(ls)) THEN <<>>
    ELSE Append(CurrentRecord(Front(ls)), Last(ls))

EventErrorIn(rec) ==
    \E i \in 1..Len(rec) : parseSSELine(rec[i]) = OneField(<<"event">>, <<"error">>)

\* C10: delta error scoping.  The decoder yields an `error` event at a
\* line only if the payload of that line has an `error` field or the
\* record of that line holds an `event: error` line.
C10_ErrorScoping ==
    [][(proto = "delta" /\ events' # events /\ Last(events').type = "error")
       => \/ HasPayload(Line) /\ HasField(PayloadOf(Line), "error")
          \/ EventErrorIn(CurrentRecord(seen))]_vars

-----------------------------------------------------------------------------
(* C11 *)

\* the complete lines of the stream, as text
WireLines == Front(Split(Decode(<<>>, wire).text))

\* C11: delta run synthesis.  A drained delta stream has returned
\* {runId, status: 'succeeded'} with the last non-empty correlation id
\* observed (the latest run_id payload, else the x-run-id header) when
\* there is one, and undefined when there is none; the value is a function
\* of the header and of the run_id payloads alone.
C11_DeltaRunSynthesis ==
    (Drained /\ proto = "delta") =>
        LET id == CorrelationId(WireLines, hdr) IN
        outcome = IF id # ""
                  THEN Returned([runId |-> id, status |-> "succeeded"])
                  ELSE Returned(NoRun)

\* a drained delta stream with a header, a run_id payload and events has
\* returned the Run of the payload's id
C11_Witness ==
    /\ Drained /\ proto = "delta"
    /\ hdr = "h1"
    /\ events # <<>>
    /\ outcome = Returned([runId |-> "r2", status |-> "succeeded"])

-----------------------------------------------------------------------------
(* C12 *)

\* number of line terminators in a text
LFCount(s) == Cardinality({i \in 1..Len(s) : s[i] = LF})

\* C12: ordering.  The decoder takes the complete lines of the wire one by
\* one in wire order, and never a line whose terminator is not in a chunk
\* already read; a step emits at most one event, appended after those
\* emitted so far, and only when it takes a line or when the reader
\* signals the end of the stream.  So events come in the order their
\* records are closed on the wire, none twice, none ahead of its bytes.
C12_Ordering ==
    /\ [](/\ IsPrefix(seen, WireLines)
          /\ Len(seen) <= LFCount(SubSeq(wire, 1, pos)))
    /\ [][events' # events
          => /\ Front(events') = events
             /\ \/ seen' # <<>> /\ Front(seen') = seen
                \/ ~readerDone /\ readerDone']_vars

\* two different events have been emitted, the second one while bytes of
\* the stream are still unread
C12_Witness ==
    /\ Len(events) = 2
    /\ events[1] # events[2]
    /\ pos < Len(wire)
    /\ pc \in {"yield", "yieldError"}

-----------------------------------------------------------------------------
(* C13 *)

\* the field name of a line: what stands before its first colon, or the
\* whole line when it has none
FieldName(line) ==
    IF IndexOf(line, COLON) = 0 THEN line
    ELSE SubSeq(line, 1, IndexOf(line, COLON) - 1)

RecognizedFields == {<<"event">>, <<"data">>, <<"id">>, <<"retry">>}

\* a comment line, or a line whose field name is not a recognized one
Noise(line) ==
    /\ line # <<>>
    /\ Head(line) = COLON \/ FieldName(line) \notin RecognizedFields

RECURSIVE KeepLines(_)
\* the lines of `ls` that are not noise
KeepLines(ls) ==
    IF ls = <<>> THEN <<>>
    ELSE IF Noise(Head(ls)) THEN KeepLines(Tail(ls))
    ELSE <<Head(ls)>> \o KeepLines(Tail(ls))

\* the stream without its complete noise lines
StripNoise(bytes) ==
    LET split == Split(bytes) IN Serialize(KeepLines(Front(split))) \o Last(split)

\* C13: comment and unknown-field robustness.  A drained stream gives the
\* events and the outcome of the same stream without its comment lines and
\* its lines with an unrecognized field name: wherever such lines are
\* inserted, they raise nothing and change no event.
C13_NoiseRobustness ==
    Drained =>
        LET without == Whole(proto, StripNoise(wire), hdr) IN
        events = without.events /\ outcome = without.outcome

-----------------------------------------------------------------------------
(* C14 *)

RECURSIVE RichRecord(_)
\* the lines of the rich record in progress after the lines `ls`: those
\* after the last blank line
RichRecord(ls) ==
    IF ls = <<>> \/ Last(ls) = <<>> THEN <<>>
    ELSE Append(RichRecord(Front(ls)), Last(ls))

\* the rich decoder is about to process a line
RichAtLine == pc = "loop" /\ proto = "rich"

\* C14: the blank-line boundary of the rich decoder.  At a blank line
\* parseSSEStream emits one event when the lines of the record hold a data
\* field whose value is valid JSON, and nothing otherwise (so nothing for
\* a record without data); and whenever it looks at a line or reads, the
\* accumulator holds the fields of the lines after the last blank line and
\* no other, so nothing of a closed or discarded record is left in it.
C14_BlankLineBoundary ==
    /\ [][(RichAtLine /\ Line = <<>>)
          => LET message == FoldMessage(RichRecord(seen), EmptyMessage) IN
             events' = IF HasData(message) /\ JSONParse(message[DATA]).ok
                       THEN Append(events, JSONParse(message[DATA]).value)
                       ELSE events]_vars
    /\ []((proto = "rich" /\ pc \in {"loop", "read"})
          => currentMessage = FoldMessage(RichRecord(seen), EmptyMessage))

\* a record with a retry field and no data has been closed by a blank line
\* without an event, and the accumulator is empty for the record that
\* follows
C14_Witness ==
    /\ RichAtLine
    /\ seen = <<RetryLine, <<>>>>
    /\ Line = RichNumber
    /\ events = <<>>
    /\ currentMessage = EmptyMessage

-----------------------------------------------------------------------------
(* C15 *)

\* the `type` tags of the rich StreamEvent union
RichTags == {"run.started", "run.status", "run.completed", "run.failed",
             "reasoning", "tool.call", "tool.result"}

\* C15: the closed event set of the rich decoder.  Every value the rich
\* createStream yields is a JSON object whose `type` is one of the seven
\* rich tags, and a record whose data is another JSON value raises
\* nothing: the generator never ends with a TypeError.
C15_ClosedEventSet ==
    proto = "rich" =>
        /\ \A i \in 1..Len(events) :
             /\ events[i].kind = "object"
             /\ Prop(events[i], "type") \in RichTags
        /\ outcome # Threw("TypeError")

-----------------------------------------------------------------------------
(* C16 *)

\* the errors requestStream throws for a non-2xx response
IsSubconsciousError(e) == e \in ErrorClasses

\* the response is a failure of the start-up: its status is not 2xx, or it
\* has no body
Non2xx == response.status < 200 \/ response.status > 299
StartupFailure == Non2xx \/ ~response.body

\* C16: fatal start-up failures precede all events.  With a non-2xx
\* response or a response without a readable body, the first pull ends
\* the generator with the mapped SubconsciousError, or with 'Response
\* body is not readable'; no event is ever yielded, nothing is read, and
\* no reader is acquired or released.
C16_StartupFailure ==
    /\ [](StartupFailure
          => /\ events = <<>> /\ pos = 0
             /\ acquired = 0 /\ released = 0
             /\ pc \in {"start", "done"}
             /\ pc = "done"
                => /\ outcome.kind = "throw"
                   /\ IF Non2xx THEN IsSubconsciousError(outcome.error)
                      ELSE outcome.error = "Response body is not readable")
    /\ [][(pc = "start" /\ StartupFailure) => pc' = "done"]_vars

\* the first pull of a delta stream has rejected with the error of a 404
\* response
C16_Witness ==
    /\ proto = "delta"
    /\ response.status = 404
    /\ pc = "done"
    /\ outcome = Threw("NotFoundError")

-----------------------------------------------------------------------------
(* C17, C18 *)

\* the consumer has abandoned the stream, or a pending reader.read() has
\* rejected
Cancelled == outcome = Closed \/ readError # NULLV

\* C17: no activity after cancellation.  At the step that cancels the
\* stream and at every step after it, no event is yielded and nothing is
\* read; the generator is finished, so no reader.read() is pending or
\* issued again, whatever lines of the last chunk are left unprocessed.
C17_NoActivityAfterCancel ==
    /\ [](Cancelled => pc = "done")
    /\ [][(Cancelled \/ Cancelled')
          => /\ events' = events
             /\ pos' = pos
             /\ readerDone' = readerDone]_vars

\* the consumer has abandoned a delta stream while the next line of the
\* chunk already read would yield an event
C17_Witness ==
    /\ proto = "delta"
    /\ outcome = Closed
    /\ pc = "done"
    /\ lines # <<>>
    /\ DeltaLine(Line, isError, runId).emit # <<>>

\* C18: partial progress is not retracted.  The step at which
\* reader.read() rejects leaves the events the consumer has received as
\* they are, and from then on the generator has ended by throwing that
\* same rejection: it is not caught with the malformed records, not
\* replaced by 'Stream ended without completion event', and no Run is
\* returned.
C18_PartialProgress ==
    /\ [](readError # NULLV => (pc = "done" /\ outcome = Threw(readError)))
    /\ [][(readError = NULLV /\ readError' # NULLV) => events' = events]_vars

\* reader.read() has rejected after a rich stream has yielded an event
\* that is no completion event
C18_Witness ==
    /\ proto = "rich"
    /\ readError # NULLV
    /\ events # <<>>
    /\ finalRun = NoRun
    /\ pos < Len(wire)

-----------------------------------------------------------------------------
(* C20 *)

\* the lines of the stream with its unterminated last line, if it has one
WireLinesAndRest ==
    LET split == Split(Decode(<<>>, wire).text) IN
    IF Last(split) = <<>> THEN Front(split) ELSE split

\* C20: the partial line at the end of a delta stream.  A drained delta
\* stream has yielded the events of all its lines, the text left after
\* the last line terminator being processed as a final line.
C20_DeltaPartialLine ==
    (Drained /\ proto = "delta")
        => events = DeltaFold(WireLinesAndRest, FALSE, HeaderRunId(hdr), <<>>).events

-----------------------------------------------------------------------------
(* Two streams decoded concurrently.  The first is the generator above,    *)
(* step by step; the second one, `peer`, runs from each `await              *)
(* reader.read()` to the next in one step, its consumer pulling at once.   *)
(* Both run on the one JavaScript thread, so their steps interleave at the *)
(* awaits.  All the state of a decode is held in locals of its generator.  *)

\* the carry-over buffer kept in one place for all streams
SharedBuffer == buffer

\* `buffer` of the second stream: a local of its own generator
PeerBuffer == peer.buffer

\* the second generator after its first next(), at `await reader.read()`
PeerStart(p, w, h) ==
    [pc |-> "read", proto |-> p, wire |-> w, hdr |-> h, pos |-> 0,
     decoder |-> <<>>, buffer |-> <<>>, message |-> EmptyMessage,
     isError |-> FALSE, runId |-> IF p = "delta" THEN HeaderRunId(h) ELSE "",
     run |-> NoRun, events |-> <<>>, outcome |-> Running]

\* reader.read() of the second stream resolves with the next n bytes, and
\* the generator processes the complete lines up to the next read
PeerRead ==
    /\ peer.pc = "read"
    /\ \E n \in 1..(Len(peer.wire) - peer.pos) :
         LET d == Decode(peer.decoder, SubSeq(peer.wire, peer.pos + 1, peer.pos + n))
             split == Split(PeerBuffer \o d.text)
             read == [peer EXCEPT !.pos = @ + n, !.decoder = d.kept,
                                  !.buffer = Last(split)]
         IN peer' =
              IF peer.proto = "delta"
              THEN LET r == DeltaFold(Front(split), peer.isError, peer.runId,
                                      peer.events)
                   IN [read EXCEPT !.isError = r.isError, !.runId = r.runId,
                                   !.events = r.events]
              ELSE LET r == RichFold(Front(split), peer.message, peer.run,
                                     peer.events)
                   IN [read EXCEPT !.message = r.message, !.run = r.run,
                                   !.events = r.events,
                                   !.pc = IF r.threw THEN "done" ELSE "read",
                                   !.outcome = IF r.threw THEN Threw("TypeError")
                                               ELSE @]
    /\ UNCHANGED <<own, http, poll, zod>>

\* reader.read() of the second stream resolves with done
PeerReadDone ==
    /\ peer.pc = "read" /\ peer.pos = Len(peer.wire)
    /\ peer' =
         IF peer.proto = "delta"
         THEN [peer EXCEPT !.pc = "done", !.outcome = DeltaEnd(peer.runId)]
         ELSE LET flush == IF PeerBuffer = <<>> THEN <<>>
                           ELSE RecordEvent(Assign(peer.message,
                                                   parseSSELine(PeerBuffer)))
              IN [peer EXCEPT
                    !.pc = "done",
                    !.events = @ \o flush,
                    !.outcome = IF flush = <<>> THEN RichEnd(peer.run)
                                ELSE IF TypeThrows(flush[1])
                                THEN Threw("TypeError")
                                ELSE RichEnd(TrackRun(flush[1], peer.run))]
    /\ UNCHANGED <<own, http, poll, zod>>

\* the streams of the pair: records cut by chunk boundaries at any place
PairWires(p) ==
    IF p = "rich"
    THEN {Serialize(<<RichStarted, Blank, RichCompleted, Blank>>),
          Serialize(<<EventOther, RichStarted, Blank>>) \o RichFailed}
    ELSE {Serialize(<<EventError, DeltaContent, DeltaRunId, DeltaContent>>),
          Serialize(<<DeltaContent, DataDone>>)}

InitPair ==
    /\ proto \in {"rich", "delta"}
    /\ response \in Responses
    /\ wire \in IF ~Startable(response) THEN {<<>>} ELSE PairWires(proto)
    /\ hdr = NULLV
    /\ peer \in {PeerStart(p, w, "h1") : p \in {"rich", "delta"},
                                        w \in PairWires("rich") \cup PairWires("delta")}
    /\ http = NoHttp
    /\ poll = NoPoll
    /\ zod = NoZod
    /\ InitLocals

NextPair ==
    \/ Next
    \/ PeerRead
    \/ PeerReadDone

SpecPair == InitPair /\ [][NextPair]_vars

\* C19: stream independence.  With the chunks of two streams delivered in
\* any interleaving, each stream yields the events and ends with the
\* outcome it gives alone, and a step of one decode leaves the buffer,
\* the record in progress, the error flag, the correlation id and every
\* other local of the other decode as they are.
C19_Independence ==
    /\ [](LET alone == Whole(proto, wire, hdr) IN
          /\ IsPrefix(events, alone.events)
          /\ Drained => (events = alone.events /\ outcome = alone.outcome))
    /\ [](LET alone == Whole(peer.proto, peer.wire, peer.hdr) IN
          /\ IsPrefix(peer.events, alone.events)
          /\ peer.pc = "done"
             => (peer.events = alone.events /\ peer.outcome = alone.outcome))
    /\ [][(peer' = peer) \/ (own' = own)]_vars

\* both streams are between two chunks, each with a partial line carried
\* over and an event already yielded
C19_Witness ==
    /\ pc = "read" /\ peer.pc = "read"
    /\ buffer # <<>> /\ peer.buffer # <<>>
    /\ buffer # peer.buffer
    /\ events # <<>> /\ peer.events # <<>>

-----------------------------------------------------------------------------
(* C21 *)

RECURSIVE DataValues(_)
\* the values of the `data` fields of the lines `rec`, in order
DataValues(rec) ==
    IF rec = <<>> THEN <<>>
    ELSE LET parsed == parseSSELine(Head(rec)) IN
         (IF ~parsed.isNull /\ parsed.key = DATA THEN <<parsed.value>> ELSE <<>>)
             \o DataValues(Tail(rec))

\* a JSON value that is a rich event
IsRichEvent(v) == v.kind = "object" /\ Prop(v, "type") \in RichTags

\* the lines of the record the step closes: at a blank line the lines
\* since the last blank line; at the end of the stream those and the
\* unterminated last line
ClosedRecord ==
    IF RichAtLine /\ Line = <<>> THEN RichRecord(seen)
    ELSE IF proto = "rich" /\ pc = "read" /\ readerDone' /\ buffer # <<>>
    THEN Append(RichRecord(seen), buffer)
    ELSE <<>>

\* C21: duplicate data fields in a rich record.  When a record with
\* several `data:` lines is closed, one decode is made, of the value of
\* the last of them: if that value is a valid event the step yields
\* exactly that event, whatever the earlier data lines held; and the step
\* raises nothing.
C21_DuplicateData ==
    [][LET values == DataValues(ClosedRecord) IN
       (Len(values) >= 2)
           => LET last == JSONParse(values[Len(values)]) IN
              /\ (last.ok /\ IsRichEvent(last.value))
                     => events' = Append(events, last.value)
              /\ ~last.ok => events' = events
              /\ outcome'.kind # "throw"]_vars

\* a record of two data lines, the first one cut short, has yielded the
\* event of the second
C21_Witness ==
    /\ proto = "rich"
    /\ pc = "yield"
    /\ Len(seen) = 3
    /\ seen[1] = RichTruncated
    /\ seen[2] = RichCompleted
    /\ seen[3] = <<>>
    /\ Len(events) = 1
    /\ IsRichEvent(events[1])


-----------------------------------------------------------------------------
(* internal/http.ts on its own: one call of request() or requestStream()   *)
(* against a response of any status and any body.                          *)

\* the statuses the server answers with
HttpStatuses == {200, 204, 299, 300, 400, 401, 403, 404, 418, 429, 500, 503, 504}

\* the `code` members of an error object: the four with a class of their
\* own, one more of ErrorCode and one outside it
HttpCodes == {"authentication_failed", "rate_limited", "not_found",
              "invalid_request", "permission_denied", "quota_exceeded"}

\* the bodies the server answers with
HttpBodies ==
    {NotJSON, NullBody, ObjectBody(NoMember), ObjectBody(NullMember),
     ObjectBody(StringMember)}
    \cup {ObjectBody(ObjectMember(c, d)) : c \in HttpCodes \cup {UNDEF},
                                           d \in {UNDEF, "d"}}

\* `await res.json()` of a body that is no JSON rejects
SyntaxError == [name |-> "SyntaxError"]

\* what res.json() resolves with
BodyValue(json) == IF json.kind = "null" THEN [kind |-> "null"] ELSE json

InitHttp ==
    /\ proto = "rich"
    /\ response = [status |-> 200, body |-> FALSE, json |-> NotJSON]
    /\ wire = <<>>
    /\ hdr = NULLV
    /\ peer = NoPeer
    /\ poll = NoPoll
    /\ zod = NoZod
    /\ InitLocals
    /\ http \in {[pc |-> "call", fn |-> f, outcome |-> Running,
                  res |-> [status |-> s, body |-> TRUE, json |-> j]] :
                 f \in {"request", "requestStream"}, s \in HttpStatuses,
                 j \in HttpBodies}

\* request(): fetch resolves with http.res
HttpRequest ==
    /\ http.pc = "call" /\ http.fn = "request"
    /\ http' = [http EXCEPT
                  !.pc = "done",
                  !.outcome = IF ~Ok(http.res)
                              THEN Threw(parseErrorResponse(http.res))
                              ELSE IF http.res.json.kind = "unparsable"
                              THEN Threw(SyntaxError)
                              ELSE Returned(BodyValue(http.res.json))]
    /\ UNCHANGED <<own, peer, poll, zod>>

\* requestStream(): fetch resolves with http.res
HttpRequestStream ==
    /\ http.pc = "call" /\ http.fn = "requestStream"
    /\ http' = [http EXCEPT
                  !.pc = "done",
                  !.outcome = IF ~Ok(http.res)
                              THEN Threw(parseErrorResponse(http.res))
                              ELSE Returned(http.res)]
    /\ UNCHANGED <<own, peer, poll, zod>>

NextHttp ==
    \/ HttpRequest
    \/ HttpRequestStream

SpecHttp == InitHttp /\ [][NextHttp]_vars

\* the code a status stands for when the body gives none
StatusKind(status) ==
    IF status = 400 THEN "invalid_request"
    ELSE IF status = 401 THEN "authentication_failed"
    ELSE IF status = 403 THEN "permission_denied"
    ELSE IF status = 404 THEN "not_found"
    ELSE IF status = 429 THEN "rate_limited"
    ELSE IF status = 503 THEN "service_unavailable"
    ELSE IF status = 504 THEN "timeout"
    ELSE "internal_error"

\* the JSON body has an `error` object with a code
HasErrorCode(json) ==
    json.kind = "object" /\ json.error.kind = "object" /\ json.error.code # UNDEF

\* the body cannot be parsed, or has no `error` object
NoErrorObject(json) == json.kind # "object" \/ json.error.kind # "object"

\* C22: HTTP error mapping.  A call answered with a status outside 200-299
\* throws a SubconsciousError: of the class of the body's error.code
\* (authentication_failed, rate_limited, not_found, invalid_request with
\* the details), generic with that code and the response status for any
\* other code; generic with the code the status stands for when the body
\* cannot be parsed or has no `error` object.  A call answered with a
\* status in 200-299 throws none of these.
C22_HttpErrorMapping ==
    http.pc = "done"
        => LET res == http.res
               o == http.outcome
               e == o.error
           IN IF res.status \in 200..299
              THEN o.kind = "throw" => ~IsSubconsciousError(e.name)
              ELSE /\ o.kind = "throw" /\ IsSubconsciousError(e.name)
                   /\ HasErrorCode(res.json)
                        => LET c == res.json.error.code IN
                           IF c = "authentication_failed"
                           THEN e.name = "AuthenticationError"
                           ELSE IF c = "rate_limited" THEN e.name = "RateLimitError"
                           ELSE IF c = "not_found" THEN e.name = "NotFoundError"
                           ELSE IF c = "invalid_request"
                           THEN e.name = "ValidationError"
                                /\ e.details = res.json.error.details
                           ELSE e.name = "SubconsciousError" /\ e.code = c
                                /\ e.status = res.status
                   /\ NoErrorObject(res.json)
                        => /\ e.name = "SubconsciousError"
                           /\ e.code = StatusKind(res.status)
                           /\ e.status = res.status

\* C22 with the bodies whose `error` member is a string left aside
C22_ExceptStringMember ==
    (http.pc = "done" /\ http.res.json.error.kind # "string") => C22_HttpErrorMapping


-----------------------------------------------------------------------------
(* internal/poll.ts and the client methods run() and wait(): one call,     *)
(* followed from await to await.  `poll.pc` is the await the call is       *)
(* suspended at: "post" (the POST of run), "request" (a status request),   *)
(* "sleep" (the delay between two polls), or "call" and "done".            *)

\* status requests an unbounded poll is followed for
MaxPolls == 3

\* the largest maxAttempts option
MaxAttempts == 3

\* TERMINAL_STATUSES
TERMINAL_STATUSES == {"succeeded", "failed", "canceled", "timed_out"}

\* the `status` of the Run a status request resolves with; UNDEF: none
RunStatuses == {"queued", "running", UNDEF} \cup TERMINAL_STATUSES

\* every status taken as terminal but `queued`
TerminalButQueued(status) == status # "queued"

\* run.status && TERMINAL_STATUSES.includes(run.status)
Terminal(status) == Truthy(status) /\ status \in TERMINAL_STATUSES

\* the Run a status request resolves with
PolledRun(status) == [runId |-> "r1", status |-> status]

\* `Polling exceeded max attempts (${maxAttempts})`
ExceededMessage(maxAttempts) ==
    "Polling exceeded max attempts (" \o ToString(maxAttempts) \o ")"

\* request<Run>(url, { headers, signal }) is called
IssueGet(p) ==
    [p EXCEPT !.pc = "request", !.gets = @ + 1,
              !.getsAfterAbort = @ + IF p.aborted THEN 1 ELSE 0]

\* the top of the while loop: the abort test, then the request
LoopTop(p) ==
    IF p.hasSignal /\ p.aborted
    THEN [p EXCEPT !.pc = "done", !.outcome = Threw("Polling aborted")]
    ELSE IssueGet(p)

\* run() goes on after the POST whatever the options say
AfterPostAlwaysWaits(p) == LoopTop(p)

\* run() after the POST has resolved: `{ runId }`, or wait(runId)
AfterPost(p) ==
    IF ~p.awaitCompletion
    THEN [p EXCEPT !.pc = "done", !.outcome = Returned([runId |-> "r1"])]
    ELSE LoopTop(p)

\* a promise that takes every resolve and reject, also once settled
SettleOverwrites(state, result) == result

\* resolve or reject of the promise of sleep(): a settled promise stays
\* as it is
Settle(state, result) == IF state = "pending" THEN result ELSE state

\* clearTimeout(timeoutId): nothing for a timer that has fired
ClearTimeout(timer) == IF timer = "pending" THEN "cleared" ELSE timer

\* the abort event with no listener on it
AbortUnheard(p) == p

\* the abort listeners of sleep() run, each once: clearTimeout and reject.
\* The poll suspended at the sleep goes on with the rejection, which
\* leaves pollUntilComplete.
AbortListener(p) ==
    LET q == [p EXCEPT !.timer = ClearTimeout(@),
                       !.sleep = Settle(@, "rejected"),
                       !.listeners = 0]
    IN IF p.pc = "sleep" /\ q.sleep = "rejected"
       THEN [q EXCEPT !.pc = "done", !.outcome = Threw("Sleep aborted")]
       ELSE q

\* A call of wait(runId, options) with any options, the signal raised
\* already or not, or a call of run(params), which polls with no options.
InitPoll ==
    /\ proto = "rich"
    /\ response = [status |-> 200, body |-> FALSE, json |-> NotJSON]
    /\ wire = <<>>
    /\ hdr = NULLV
    /\ peer = NoPeer
    /\ http = NoHttp
    /\ zod = NoZod
    /\ InitLocals
    /\ \E entry \in {"run", "wait"}, await \in BOOLEAN, bounded \in BOOLEAN,
          n \in 0..MaxAttempts, signal \in BOOLEAN, raised \in BOOLEAN :
         /\ entry = "run" => (~bounded /\ ~signal)
         /\ entry = "wait" => ~await
         /\ ~bounded => n = 0
         /\ raised => signal
         /\ poll = [pc |-> "call", entry |-> entry, awaitCompletion |-> await,
                    bounded |-> bounded, maxAttempts |-> n,
                    hasSignal |-> signal, aborted |-> raised, attempts |-> 0,
                    posts |-> 0, gets |-> 0, getsAfterAbort |-> 0,
                    statuses |-> <<>>, timer |-> "none", sleep |-> "none",
                    listeners |-> 0, outcome |-> Running]

\* run(params) is called: the POST is issued
CallRun ==
    /\ poll.pc = "call" /\ poll.entry = "run"
    /\ poll' = [poll EXCEPT !.pc = "post", !.posts = @ + 1]
    /\ UNCHANGED <<own, peer, http, zod>>

\* wait(runId, options) is called: pollUntilComplete runs to its first await
CallWait ==
    /\ poll.pc = "call" /\ poll.entry = "wait"
    /\ poll' = LoopTop(poll)
    /\ UNCHANGED <<own, peer, http, zod>>

\* the POST of run() resolves with { runId }
PostResolves ==
    /\ poll.pc = "post"
    /\ poll' = AfterPost(poll)
    /\ UNCHANGED <<own, peer, http, zod>>

\* the POST of run() is answered with an error status: request() throws
PostFails ==
    /\ poll.pc = "post"
    /\ poll' = [poll EXCEPT !.pc = "done", !.outcome = Threw("SubconsciousError")]
    /\ UNCHANGED <<own, peer, http, zod>>

\* a status request resolves with a Run; the loop runs to its next await
GetResolves ==
    /\ poll.pc = "request"
    /\ ~(poll.hasSignal /\ poll.aborted)
    /\ \E status \in RunStatuses :
         LET got == [poll EXCEPT !.statuses = Append(@, status)] IN
         poll' =
           IF Terminal(status)
           THEN [got EXCEPT !.pc = "done", !.outcome = Returned(PolledRun(status))]
           ELSE LET counted == [got EXCEPT !.attempts = @ + 1] IN
                IF counted.bounded /\ counted.attempts >= counted.maxAttempts
                THEN [counted EXCEPT !.pc = "done",
                                     !.outcome = Threw(ExceededMessage(counted.maxAttempts))]
                ELSE [counted EXCEPT
                        !.pc = "sleep", !.timer = "pending", !.sleep = "pending",
                        !.listeners = IF counted.hasSignal THEN @ + 1 ELSE @]
    /\ UNCHANGED <<own, peer, http, zod>>

\* a status request is answered with an error status: request() throws
GetFails ==
    /\ poll.pc = "request"
    /\ ~(poll.hasSignal /\ poll.aborted)
    /\ poll' = [poll EXCEPT !.pc = "done", !.outcome = Threw("SubconsciousError")]
    /\ UNCHANGED <<own, peer, http, zod>>

\* fetch rejects the pending status request of a signal that was raised
GetAborted ==
    /\ poll.pc = "request"
    /\ poll.hasSignal /\ poll.aborted
    /\ poll' = [poll EXCEPT !.pc = "done", !.outcome = Threw("AbortError")]
    /\ UNCHANGED <<own, peer, http, zod>>

\* the timer of sleep() fires: resolve, and the loop runs to its next await
TimerFires ==
    /\ poll.pc = "sleep" /\ poll.timer = "pending"
    /\ poll.bounded \/ poll.gets < MaxPolls
    /\ poll' = LoopTop([poll EXCEPT !.timer = "fired",
                                    !.sleep = Settle(@, "resolved")])
    /\ UNCHANGED <<own, peer, http, zod>>

\* the caller raises the signal: the listeners that the calls of sleep()
\* have added run, those of the sleeps that are over too; `poll.sleep` and
\* `poll.timer` are the promise and the timer of the latest sleep
Abort ==
    /\ poll.pc \in {"request", "sleep"}
    /\ poll.hasSignal /\ ~poll.aborted
    /\ poll' = LET raised == [poll EXCEPT !.aborted = TRUE] IN
               IF poll.listeners > 0 THEN AbortListener(raised) ELSE raised
    /\ UNCHANGED <<own, peer, http, zod>>

\* the steps of the call and of what it awaits
PollStep ==
    \/ CallRun
    \/ CallWait
    \/ PostResolves
    \/ PostFails
    \/ GetResolves
    \/ GetFails
    \/ GetAborted
    \/ TimerFires

NextPoll ==
    \/ PollStep
    \/ Abort

SpecPoll == InitPoll /\ [][NextPoll]_vars

\* every request and every sleep terminates
FairPoll == SpecPoll /\ WF_vars(PollStep)


\* the call has resolved with a Run got from a status request
PollReturned == poll.outcome.kind = "return" /\ poll.gets > 0

\* C23: polling returns only terminal runs.  A poll that returns, returns
\* the Run of its last response, whose status is succeeded, failed,
\* canceled or timed_out; every response before it was not terminal
\* (queued, running or no status), so it is the first terminal one, and
\* no status request is issued once a terminal response has been seen.
C23_TerminalOnly ==
    /\ [](PollReturned
            => LET n == Len(poll.statuses) IN
               /\ n >= 1 /\ n = poll.gets
               /\ poll.outcome.value = [runId |-> "r1", status |-> poll.statuses[n]]
               /\ poll.statuses[n] \in {"succeeded", "failed", "canceled", "timed_out"}
               /\ \A i \in 1..(n - 1) :
                    poll.statuses[i] \in {"queued", "running", UNDEF})
    /\ [][(\E i \in 1..Len(poll.statuses) :
             poll.statuses[i] \in {"succeeded", "failed", "canceled", "timed_out"})
          => poll'.gets = poll.gets]_vars

\* wait() has returned a terminal Run after two responses that were not
C23_Witness ==
    /\ poll.entry = "wait" /\ PollReturned
    /\ poll.statuses = <<"queued", UNDEF, "timed_out">>


\* the poll has thrown the max-attempts error
Exceeded(p) ==
    p.outcome = [kind |-> "throw",
                 error |-> "Polling exceeded max attempts ("
                           \o ToString(p.maxAttempts) \o ")"]

\* the poll was given a maxAttempts of the set ns
BoundedIn(ns) == poll.bounded /\ poll.maxAttempts \in ns

\* at most maxAttempts requests, and the error when all of them were
\* answered with a run that is not terminal
BoundKept ==
    /\ poll.gets <= poll.maxAttempts
    /\ (poll.pc = "done" /\ poll.gets = poll.maxAttempts
        /\ Len(poll.statuses) = poll.gets
        /\ \A i \in 1..Len(poll.statuses) :
             poll.statuses[i] \in {"queued", "running", UNDEF})
       => Exceeded(poll)

\* the error is thrown at a response, with no timer set and no request
ThrownAtResponse ==
    Exceeded(poll')
        => (poll.pc = "request" /\ poll'.pc = "done"
            /\ poll'.timer # "pending" /\ poll'.gets = poll.gets)

\* C24: polling attempt bound.  A poll with maxAttempts = N, N any
\* non-negative integer, issues at most N status requests; when none of
\* N responses is terminal it throws 'Polling exceeded max attempts (N)'
\* at the last response, without sleeping again; and it terminates when
\* every request and every sleep does.
C24_AttemptBound ==
    /\ [](BoundedIn(0..MaxAttempts) => BoundKept)
    /\ [][BoundedIn(0..MaxAttempts) => ThrownAtResponse]_vars
    /\ BoundedIn(0..MaxAttempts) ~> (poll.pc = "done")

\* C24 for the positive values of maxAttempts
C24_PositiveBound ==
    /\ [](BoundedIn(1..MaxAttempts) => BoundKept)
    /\ [][BoundedIn(1..MaxAttempts) => ThrownAtResponse]_vars
    /\ BoundedIn(1..MaxAttempts) ~> (poll.pc = "done")


\* the errors a raised signal ends the poll with
AbortErrors == {"Polling aborted", "Sleep aborted", "AbortError"}

\* the signal is raised now, during the sleep between two polls
AbortInSleep == poll.pc = "sleep" /\ ~poll.aborted /\ poll'.aborted

\* C25: polling cancellation.  Once the signal of a pending poll is raised
\* the call rejects: no status request is started after the abort, no Run
\* is returned, the error is none of normal completion and the
\* max-attempts error; a signal raised before the call throws 'Polling
\* aborted' with no request made, one raised during the sleep clears the
\* timer and rejects with 'Sleep aborted' at once.
C25_Cancellation ==
    /\ [](poll.pc # "none" /\ poll.aborted
            => /\ poll.getsAfterAbort = 0
               /\ poll.outcome.kind \in {"none", "throw"}
               /\ poll.outcome.kind = "throw"
                    => (poll.outcome.error \in AbortErrors /\ ~Exceeded(poll))
               /\ poll.timer # "pending")
    /\ [][/\ (poll.pc = "call" /\ poll.aborted)
               => (poll'.outcome = [kind |-> "throw", error |-> "Polling aborted"]
                   /\ poll'.gets = 0)
          /\ AbortInSleep
               => (poll'.outcome = [kind |-> "throw", error |-> "Sleep aborted"]
                   /\ poll'.timer = "cleared" /\ poll'.pc = "done")]_vars
    /\ (poll.pc # "none" /\ poll.aborted) ~> (poll.outcome.kind = "throw")

\* the signal was raised during the second sleep of a poll
C25_Witness ==
    /\ poll.pc = "done" /\ poll.aborted /\ poll.gets = 2
    /\ poll.timer = "cleared" /\ poll.outcome = Threw("Sleep aborted")


\* C26: completion mode of client.run.  run() issues one POST, before
\* any status request.  Without awaitCompletion it makes no status
\* request and returns { runId } alone; with awaitCompletion it polls
\* and returns only a Run whose status is terminal.  A POST that fails
\* rejects the call with no status request made.
C26_RunCompletionMode ==
    /\ [](poll.pc # "none" /\ poll.entry = "run"
            => /\ poll.posts = IF poll.pc = "call" THEN 0 ELSE 1
               /\ poll.pc \in {"call", "post"} => poll.gets = 0
               /\ ~poll.awaitCompletion
                    => /\ poll.gets = 0
                       /\ poll.outcome.kind = "return"
                            => poll.outcome.value = [runId |-> "r1"]
               /\ (poll.awaitCompletion /\ poll.outcome.kind = "return")
                    => /\ poll.gets >= 1
                       /\ poll.outcome.value.runId = "r1"
                       /\ poll.outcome.value.status
                            \in {"succeeded", "failed", "canceled", "timed_out"})
    /\ [][(poll.pc = "post" /\ poll'.outcome.kind = "throw")
            => (poll'.pc = "done" /\ poll'.gets = 0)]_vars
    /\ [][(poll.pc = "post" /\ poll'.outcome.kind # "throw")
            => IF poll.awaitCompletion
               THEN poll'.pc = "request" /\ poll'.gets = 1
               ELSE poll'.pc = "done" /\ poll'.outcome.kind = "return"]_vars

\* run() with awaitCompletion has resolved at its second status request
C26_Witness ==
    /\ poll.entry = "run" /\ poll.awaitCompletion /\ poll.posts = 1
    /\ poll.gets = 2 /\ poll.outcome = Returned(PolledRun("succeeded"))


-----------------------------------------------------------------------------
(* C27 *)

\* the text decoded from the chunks read so far
TextSoFar == DecodeBytes(<<>>, SubSeq(wire, 1, pos)).text

RECURSIVE TerminatedLines(_)
\* the lines of a text that end with a terminator, without it, in order
TerminatedLines(t) ==
    LET i == IndexOf(t, LF) IN
    IF i = 0 THEN <<>>
    ELSE <<SubSeq(t, 1, i - 1)>> \o TerminatedLines(SubSeq(t, i + 1, Len(t)))

RECURSIVE Unterminated(_)
\* the text after the last line terminator
Unterminated(t) ==
    LET i == IndexOf(t, LF) IN
    IF i = 0 THEN t ELSE Unterminated(SubSeq(t, i + 1, Len(t)))

\* C27: line reassembly.  In both decoders the carry-over buffer holds no
\* line terminator and is the decoded text after the last terminator
\* received; the lines processed, followed by those of the current chunk
\* still to process, are the terminated lines received, each once and in
\* order (after a chunk has been processed: the lines processed are all of
\* them); no processed line holds a terminator.
C27_LineReassembly ==
    /\ \A i \in 1..Len(buffer) : buffer[i] # LF
    /\ buffer = Unterminated(TextSoFar)
    /\ \A k \in 1..Len(seen) : \A i \in 1..Len(seen[k]) : seen[k][i] # LF
    /\ pc # "done" => seen \o lines = TerminatedLines(TextSoFar)
    /\ pc = "done" => IsPrefix(seen, TerminatedLines(TextSoFar))

\* a delta decoder between two chunks, with lines processed and the head
\* of a line carried over
C27_Witness ==
    /\ proto = "delta" /\ pc = "read" /\ pos < Len(wire)
    /\ Len(seen) = 2 /\ seen[2] # <<>>
    /\ buffer = <<"data", COLON>>


-----------------------------------------------------------------------------
(* C28 *)

\* the lines processed before the record in progress: those up to the
\* last blank line
ClosedLines ==
    LET blanks == {i \in 1..Len(seen) : seen[i] = <<>>} IN
    IF blanks = {} THEN <<>>
    ELSE SubSeq(seen, 1, CHOOSE i \in blanks : \A j \in blanks : j <= i)

\* the events of the record in progress
RecordEvents ==
    Len(events) - Len(DeltaFold(ClosedLines, FALSE, HeaderRunId(hdr), <<>>).events)

\* C28: one event per record (delta).  The lines of one record, a run of
\* non-blank lines up to a blank line or the end of the stream, yield at
\* most one event in the delta decoder, however many `data:` lines the
\* record has.
C28_OneEventPerRecord == proto = "delta" => RecordEvents <= 1


-----------------------------------------------------------------------------
(* C29, C30 *)

\* the delta decoder yields an event of type t at this step
DeltaYields(t) ==
    DeltaAtLine /\ Len(events') = Len(events) + 1 /\ Last(events').type = t

\* payload.choices[0].delta.content of the line
ContentOfLine == Prop(PayloadOf(Line), "content")

\* a parsed payload with no run_id, no error marker and no content to yield
NothingToYield ==
    /\ DeltaAtLine /\ HasPayload(Line)
    /\ ~Truthy(Prop(PayloadOf(Line), "run_id"))
    /\ ~isError /\ ~Truthy(Prop(PayloadOf(Line), "error"))
    /\ ~NonEmptyString(ContentOfLine)

\* C29: delta content filter.  Every `delta` event of the delta decoder
\* carries a non-empty string, the choices[0].delta.content of the payload
\* of the line it was yielded at; a parsed payload with no run_id and no
\* error marker whose content is missing, empty or not a string yields no
\* event and leaves the correlation id and the error flag as they are.
C29_DeltaContentFilter ==
    /\ [](proto = "delta"
            => \A i \in 1..Len(events) :
                 events[i].type = "delta" => NonEmptyString(events[i].content))
    /\ [][DeltaYields("delta")
            => (HasPayload(Line) /\ Last(events').content = ContentOfLine)]_vars
    /\ [][NothingToYield
            => (events' = events /\ runId' = runId /\ isError' = isError)]_vars

\* a payload whose content is a number has been passed over after a delta
C29_Witness ==
    /\ proto = "delta" /\ pc = "read"
    /\ Len(seen) = 3 /\ seen[2] = DeltaNumberContent /\ seen[3] = DeltaEmptyContent
    /\ Len(events) = 1 /\ events[1].type = "delta" /\ runId = "h1"

\* the value of a member of the payload of the line when it is truthy
Present(k) == Truthy(Prop(PayloadOf(Line), k))

\* C30: contents of the delta error event.  Every `error` event of the
\* delta decoder has as message the `details` of the payload when present
\* (truthy), else its `error` when present, else 'Unknown error'; as code
\* the `code` of the payload, none when it has none; and as runId the
\* current correlation id.
C30_DeltaErrorContents ==
    [][DeltaYields("error")
         => /\ HasPayload(Line)
            /\ LET e == Last(events')
                   p == PayloadOf(Line).fields
               IN /\ e.message = IF Present("details") THEN p.details
                                 ELSE IF Present("error") THEN p.error
                                 ELSE "Unknown error"
                  /\ e.code = IF "code" \in DOMAIN p THEN p.code ELSE UNDEF
                  /\ e.runId = runId]_vars

\* error events with the details as message, and with the fallback
C30_Witness ==
    /\ proto = "delta" /\ Len(events) = 2
    /\ events[1] = [type |-> "error", runId |-> "h1", message |-> "why",
                    code |-> "E42"]
    /\ events[2] = [type |-> "error", runId |-> "h1",
                    message |-> "Unknown error", code |-> "E42"]


-----------------------------------------------------------------------------
(* Streams whose lines end in CR LF.  The decoders split at LF only, so    *)
(* each line they process ends with CR.                                    *)

\* a line of a CR LF stream as the split gives it
CRLine(line) == line \o <<CR>>

\* Families of rich and delta streams with CR LF line ends; the tails are
\* last lines without any line end
RichCRLFFamilies ==
    { [lines |-> {CRLine(l) : l \in {Blank, RichCompleted, RichTruncated,
                                      RichNull, RetryLine}},
       tails |-> {<<>>, RichCompleted, RichNull, RichTruncated},
       headers |-> {NULLV}] }

DeltaCRLFFamilies ==
    { [lines |-> {CRLine(l) : l \in {Blank, EventError, DeltaContent,
                                      DeltaTruncated, RichNull, DataDone}},
       tails |-> {<<>>}, headers |-> {NULLV}] }

InitCRLF ==
    /\ proto \in {"rich", "delta"}
    /\ response \in Responses
    /\ \E f \in IF proto = "rich" THEN RichCRLFFamilies ELSE DeltaCRLFFamilies :
         /\ wire \in IF Startable(response) THEN WiresOf(f) ELSE {<<>>}
         /\ hdr \in IF Ok(response) THEN f.headers ELSE {NULLV}
    /\ peer = NoPeer
    /\ http = NoHttp
    /\ poll = NoPoll
    /\ zod = NoZod
    /\ InitLocals

SpecCRLF == InitCRLF /\ [][Next]_vars

\* the errors a stream can end with that are raised outside the decoder:
\* by requestStream and getReader at the start, by reader.read(), and by
\* createStream on the events and at the end of the rich stream
RaisedOutside ==
    \/ outcome.error \in ErrorClasses \cup {"Response body is not readable",
                                            "read rejected"}
    \/ /\ proto = "rich"
       /\ outcome.error = "Stream ended without completion event"
       /\ readerDone
    \/ /\ proto = "rich"
       /\ outcome.error = "TypeError"
       /\ events # <<>> /\ events[Len(events)].kind = "null"

\* C31: CR LF input.  On a stream whose lines end in CR LF, whatever the
\* records hold, no error is raised inside the decoder: a stream that ends
\* with an error ends with one raised outside parseSSELine, parseSSEStream
\* and the delta read loop, and every step that processes a line leaves
\* the generator running.
C31_CRLFNeverRaises ==
    /\ [](outcome.kind = "throw" => RaisedOutside)
    /\ [][(pc = "loop") => outcome'.kind # "throw"]_vars

\* both kinds of malformed payload of the delta decoder have been passed
\* over, each in a line that ends with CR
C31_Witness ==
    /\ proto = "delta" /\ pc = "read" /\ outcome.kind = "none"
    /\ seen = <<CRLine(DeltaTruncated), CRLine(RichNull), CRLine(DataDone)>>
    /\ Len(events) = 1


-----------------------------------------------------------------------------
(* C32 *)

\* the signal is raised now, after the timer of the latest sleep has fired
AbortAfterTimer == poll.timer = "fired" /\ ~poll.aborted /\ poll'.aborted

\* a new call of sleep() is made at this step
SleepStarts == poll.pc = "request" /\ poll'.pc = "sleep"

\* C32: sleep settles exactly once.  Whatever the order of the timer and
\* the abort, the promise of sleep() is resolved when the timer fires
\* first, and rejected with 'Sleep aborted', its timer cleared for good,
\* when the abort comes first; once settled it stays as it is; and an
\* abort after the timer has fired changes nothing of the poll but the
\* `aborted` the signal shows.
C32_SleepSettlesOnce ==
    /\ [](/\ poll.pc = "sleep" <=> poll.sleep = "pending"
          /\ poll.sleep = "pending" <=> poll.timer = "pending"
          /\ poll.sleep = "resolved" <=> poll.timer = "fired"
          /\ poll.sleep = "rejected" <=> poll.timer = "cleared"
          /\ poll.sleep = "rejected"
               => (poll.aborted /\ poll.outcome = [kind |-> "throw",
                                                   error |-> "Sleep aborted"]))
    /\ [][/\ (poll.sleep \in {"resolved", "rejected"} /\ ~SleepStarts)
               => (poll'.sleep = poll.sleep /\ poll'.timer = poll.timer)
          /\ poll.sleep = "pending"
               => (poll'.sleep = IF poll'.aborted THEN "rejected" ELSE "resolved")
          /\ AbortAfterTimer
               => poll' = [poll EXCEPT !.aborted = TRUE, !.listeners = 0]]_vars

\* the signal was raised after the timer of the second sleep had fired,
\* during the request that followed
C32_Witness ==
    /\ poll.pc = "request" /\ poll.aborted /\ poll.gets = 3
    /\ poll.sleep = "resolved" /\ poll.timer = "fired" /\ poll.listeners = 0


\* ---------------------------------------------------------------------
\* Schema conversion: zodToJsonSchema(), convertZodField(), convertType()
\* ---------------------------------------------------------------------

\* the deepest nesting of the definitions converted
MaxDepth == 2

\* a definition (ZodDef): `innerType`, `type` and the elements of `shape`
\* and `options` are objects with an optional `_def`, written as the
\* empty sequence when the `_def` is absent and <<def>> when present;
\* typeName "" is an absent typeName
ZodDef(typeName) ==
    [typeName |-> typeName, innerType |-> <<>>, type |-> <<>>,
     hasShape |-> FALSE, shape |-> <<>>, options |-> <<>>]

\* the typeNames the loop of convertZodField unwraps
Wrappers == {"ZodOptional", "ZodNullable", "ZodDefault"}

\* definitions without sub-definitions
Leaves == {ZodDef("ZodString"), ZodDef("")}

\* an object whose `_def` is absent, or one of S
Opt(S) == {<<>>} \cup {<<d>> : d \in S}

\* the definitions of nesting at most n
RECURSIVE Defs(_)
Defs(n) ==
    IF n = 0 THEN Leaves
    ELSE LET sub == Defs(n - 1)
             deep == Opt(sub)
             flat == Opt(Leaves)
         IN  sub
             \cup {[ZodDef(w) EXCEPT !.innerType = i, !.type = t] :
                       w \in Wrappers,
                       <<i, t>> \in (deep \X flat) \cup (flat \X deep)}
             \cup {[ZodDef("ZodArray") EXCEPT !.type = t] : t \in deep}
             \cup {ZodDef("ZodObject")}
             \cup {[ZodDef("ZodObject") EXCEPT !.hasShape = TRUE,
                                               !.shape = <<f>>] :
                       f \in deep}
             \cup {[ZodDef("ZodUnion") EXCEPT !.options = <<o, p>>] :
                       o \in deep, p \in flat}

\* the schemas zodToJsonSchema is called with: objects of one field of
\* any nesting or of two fields, and values that are no object schema
Schemas ==
    {<<>>, <<ZodDef("ZodString")>>}
    \cup {<<[ZodDef("ZodObject") EXCEPT !.hasShape = TRUE,
                                        !.shape = <<f>>]>> :
              f \in Opt(Defs(MaxDepth))}
    \cup {<<[ZodDef("ZodObject") EXCEPT !.hasShape = TRUE,
                                        !.shape = <<f, g>>]>> :
              f \in Opt(Defs(1)), g \in Opt(Leaves)}

\* a pending call of convertZodField or convertType, or the loop of
\* convertZodField at its test ("while") or in its body ("body") with
\* its locals currentDef and isOptional
Task(fn, def, isOptional) ==
    [fn |-> fn, def |-> def, isOptional |-> isOptional]

\* for (const [key, field] of Object.entries(shape)) convertZodField(field)
FieldTasks(shape) ==
    [i \in 1..Len(shape) |-> Task("convertZodField", shape[i], FALSE)]

\* currentDef.innerType?._def || currentDef.type?._def || currentDef
Unwrap(currentDef) ==
    IF currentDef.innerType # <<>> THEN currentDef.innerType[1]
    ELSE IF currentDef.type # <<>> THEN currentDef.type[1]
    ELSE currentDef

\* the calls convertType(def) makes, in their order
RECURSIVE OptionTasks(_)
OptionTasks(options) ==
    IF options = <<>> THEN <<>>
    ELSE (IF Head(options) # <<>>
          THEN <<Task("convertType", Head(options), FALSE)>>
          ELSE <<>>) \o OptionTasks(Tail(options))

convertType(def) ==
    CASE def.typeName = "ZodArray" ->
             IF def.type # <<>>
             THEN <<Task("convertType", def.type, FALSE)>>
             ELSE <<>>
      [] def.typeName = "ZodObject" ->
             IF def.hasShape THEN FieldTasks(def.shape) ELSE <<>>
      [] def.typeName = "ZodUnion" -> OptionTasks(def.options)
      [] OTHER -> <<>>

InitZod ==
    /\ proto = "rich"
    /\ response = [status |-> 200, body |-> FALSE, json |-> NotJSON]
    /\ wire = <<>>
    /\ hdr = NULLV
    /\ peer = NoPeer
    /\ http = NoHttp
    /\ poll = NoPoll
    /\ InitLocals
    /\ \E schema \in Schemas :
           zod = [pc |-> "called", schema |-> schema, work |-> <<>>,
                  outcome |-> "none"]

\* zodToJsonSchema(schema, title) reads the shape, or throws
zodToJsonSchema ==
    /\ zod.pc = "called"
    /\ zod' = IF zod.schema # <<>> /\ zod.schema[1].hasShape
              THEN [zod EXCEPT !.pc = "converting",
                               !.work = FieldTasks(zod.schema[1].shape)]
              ELSE [zod EXCEPT !.pc = "done", !.outcome = "Error"]
    /\ UNCHANGED <<own, peer, http, poll>>

\* convertZodField(field) up to its loop
convertZodField ==
    /\ zod.pc = "converting"
    /\ zod.work # <<>>
    /\ Head(zod.work).fn = "convertZodField"
    /\ LET def == Head(zod.work).def
       IN  zod' = IF def = <<>> \/ def[1].typeName = ""
                  THEN [zod EXCEPT !.work = Tail(@)]
                  ELSE [zod EXCEPT !.work =
                            <<Task("while", def, FALSE)>> \o Tail(@)]
    /\ UNCHANGED <<own, peer, http, poll>>

\* the test of the loop's condition: the body is entered at a wrapper,
\* otherwise convertZodField goes on to convertType(currentDef, zodField)
WhileTest ==
    /\ zod.pc = "converting"
    /\ zod.work # <<>>
    /\ Head(zod.work).fn = "while"
    /\ LET task == Head(zod.work)
       IN  zod' = [zod EXCEPT !.work =
                       <<Task(IF task.def[1].typeName \in Wrappers
                              THEN "body" ELSE "convertType",
                              task.def, task.isOptional)>> \o Tail(@)]
    /\ UNCHANGED <<own, peer, http, poll>>

\* one pass of the loop's body, back to the test or out by `break`
WhileBody ==
    /\ zod.pc = "converting"
    /\ zod.work # <<>>
    /\ Head(zod.work).fn = "body"
    /\ LET task == Head(zod.work)
           currentDef == Unwrap(task.def[1])
           isOptional == task.isOptional
                         \/ task.def[1].typeName = "ZodOptional"
       IN  zod' = [zod EXCEPT !.work =
                       <<Task(IF currentDef.typeName = ""
                              THEN "convertType" ELSE "while",
                              <<currentDef>>, isOptional)>> \o Tail(@)]
    /\ UNCHANGED <<own, peer, http, poll>>

\* convertType(def, field), with the calls it makes left pending
ConvertTypeStep ==
    /\ zod.pc = "converting"
    /\ zod.work # <<>>
    /\ Head(zod.work).fn = "convertType"
    /\ zod' = [zod EXCEPT !.work = convertType(Head(@).def[1]) \o Tail(@)]
    /\ UNCHANGED <<own, peer, http, poll>>

\* return { type: 'object', title, properties, required }
ZodReturn ==
    /\ zod.pc = "converting"
    /\ zod.work = <<>>
    /\ zod' = [zod EXCEPT !.pc = "done", !.outcome = "returned"]
    /\ UNCHANGED <<own, peer, http, poll>>

NextZod ==
    \/ zodToJsonSchema
    \/ convertZodField
    \/ WhileTest
    \/ WhileBody
    \/ ConvertTypeStep
    \/ ZodReturn

SpecZod == InitZod /\ [][NextZod]_vars

\* every step of the synchronous conversion that can be taken is taken
FairZod == SpecZod /\ WF_vars(NextZod)

\* a wrapper definition with neither `innerType._def` nor `type._def`
Bare(def) ==
    def.typeName \in Wrappers /\ def.innerType = <<>> /\ def.type = <<>>

\* no definition in the sequence, nor any below it, is a bare wrapper
RECURSIVE Grounded(_)
Grounded(defs) ==
    \A i \in 1..Len(defs) :
        defs[i] = <<>>
        \/ (/\ ~Bare(defs[i][1])
            /\ Grounded(<<defs[i][1].innerType, defs[i][1].type>>)
            /\ Grounded(defs[i][1].shape)
            /\ Grounded(defs[i][1].options))

\* C33: schema conversion terminates.  zodToJsonSchema and convertZodField
\* terminate for every schema of finite depth and every field definition,
\* wrapper definitions (ZodOptional, ZodNullable, ZodDefault) included, at
\* any nesting and with `innerType` and `type` sub-definitions present or
\* absent in any combination.
C33_ConversionTerminates ==
    (zod.pc = "called") ~> (zod.pc = "done")

\* C33 for the schemas in which every wrapper has a sub-definition
C33_GroundedTerminates ==
    (zod.pc = "called" /\ Grounded(<<zod.schema>>)) ~> (zod.pc = "done")

\* the loop of convertZodField is at a wrapper it cannot unwrap
C33_Stuck ==
    /\ zod.pc = "converting"
    /\ zod.work # <<>>
    /\ Head(zod.work).fn = "body"
    /\ Bare(Head(zod.work).def[1])

=============================================================================
